---- MODULE Spec2Model ----
(***************************************************************************)
(* Mars Inc. simulation engine: storage holders, colonies, rockets, the    *)
(* trade-route automation, exploration and the session snapshot.           *)
(*                                                                         *)
(* Units.  The program computes with JavaScript numbers.  Here             *)
(*   - a goods quantity is held in eighths of a unit (QUnit per unit),     *)
(*   - the treasury is held in eighths of a credit, so that a fractional   *)
(*     quantity times an integer price is exact,                           *)
(*   - a time is held in quarter minutes,                                  *)
(*   - Math.pow(b, level) is tabulated for the levels the model uses.      *)
(* A production amount is rounded down to the eighth of a unit.            *)
(***************************************************************************)
EXTENDS Integers, Sequences, FiniteSets, TLC

VARIABLES
    credits,              \* Company.credits, in eighths of a credit
    colonies,             \* Company.colonies
    rockets,              \* GameSession.rockets
    explorationMissions,  \* GameSession.explorationMissions
    totalSolsPassed,      \* GameSession.totalSolsPassed
    currentSol,           \* GameSession.currentSol
    currentSolProgress,   \* GameSession.currentSolProgress, in quarters of a sol
    tickCounter,          \* GameManager.tickCounter
    saved,                \* the last snapshot written by toData (<<>> before)
    hist,                 \* history of the trade route under observation
    clock                 \* Date.now(), the time stamps of the GameManager, the departures

vars == <<credits, colonies, rockets, explorationMissions, totalSolsPassed,
          currentSol, currentSolProgress, tickCounter, saved, hist, clock>>

-----------------------------------------------------------------------------
(* Scales *)

QUnit == 8
TUnit == 4

Qty(n) == n * QUnit
Credits(n) == n * QUnit
Minutes(n) == n * TUnit

Min(a, b) == IF a <= b THEN a ELSE b
Max(a, b) == IF a >= b THEN a ELSE b

\* Math.floor of a quantity held in eighths
Floor(q) == (q \div QUnit) * QUnit

\* JavaScript numbers are binary floating point: a result that needs more significant
\* bits than the significand holds is rounded to the nearest representable value, ties
\* to even.  The significand is scaled down from 53 bits so that the rounding is within
\* reach of the model's integers; every quantity and amount the engine steps compute
\* stays below 2^SignificandBits eighths and is exact.
SignificandBits == 24

RECURSIVE Pow2(_)
Pow2(n) == IF n = 0 THEN 1 ELSE 2 * Pow2(n - 1)

\* the spacing of the representable values around a magnitude
RECURSIVE Spacing(_, _)
Spacing(magnitude, step) ==
    IF magnitude < Pow2(SignificandBits) * step THEN step
    ELSE Spacing(magnitude, 2 * step)

\* the number a result is stored as
RoundNumber(x) ==
    LET magnitude == IF x < 0 THEN -x ELSE x
        step == Spacing(magnitude, 1)
        low == (magnitude \div step) * step
        rest == magnitude - low
        rounded == IF 2 * rest < step THEN low
                   ELSE IF 2 * rest > step THEN low + step
                   ELSE IF (low \div step) % 2 = 0 THEN low ELSE low + step
    IN  IF x < 0 THEN -rounded ELSE rounded

\* a - b and a + b on numbers
NumSub(a, b) == RoundNumber(a - b)
NumAdd(a, b) == RoundNumber(a + b)

\* F applied to the value of v: a local constant of the program, computed once
Bind(v, F(_)) == CHOOSE r \in {F(x) : x \in {v}} : TRUE

-----------------------------------------------------------------------------
(* Locations *)

EARTH == "Earth"
MOON == "Moon"
MARS == "Mars"
SPACE_STATION == "Space Station"
TRAVELING == "Traveling"

LocationType == {EARTH, MOON, MARS, SPACE_STATION, TRAVELING}

SpaceLocation(type, uuid) == [type |-> type, uuid |-> uuid]

\* a rocket's destinationId when it is null
NoLocation == [type |-> "null", uuid |-> "null"]

\* the location createNewSession gives the headquarters
EarthHQLocation == SpaceLocation(EARTH, "loc-earth")

\* twice getProductionModifierForLocation(type)
ProductionModifier2(type) ==
    CASE type = MARS -> 10
      [] type = MOON -> 8
      [] type = SPACE_STATION -> 1
      [] type = TRAVELING -> 0
      [] OTHER -> 2

-----------------------------------------------------------------------------
(* Goods *)

FOOD == 1
FUEL == 3
COMPUTER == 4
CIRCUIT_BOARD == 5
O2 == 7

\* baseProductionPerSol is held in tenths
GoodsRegistry ==
    [id \in {1, 2, 3, 4, 5, 6, 7} |->
        CASE id = 1 -> [baseProductionPerSol10 |-> 15, marketBuyPrice |-> 50,  marketSellPrice |-> 40]
          [] id = 2 -> [baseProductionPerSol10 |-> 12, marketBuyPrice |-> 40,  marketSellPrice |-> 25]
          [] id = 3 -> [baseProductionPerSol10 |-> 10, marketBuyPrice |-> 100, marketSellPrice |-> 70]
          [] id = 4 -> [baseProductionPerSol10 |-> 8,  marketBuyPrice |-> 500, marketSellPrice |-> 350]
          [] id = 5 -> [baseProductionPerSol10 |-> 6,  marketBuyPrice |-> 300, marketSellPrice |-> 200]
          [] id = 6 -> [baseProductionPerSol10 |-> 10, marketBuyPrice |-> 400, marketSellPrice |-> 280]
          [] id = 7 -> [baseProductionPerSol10 |-> 12, marketBuyPrice |-> 80,  marketSellPrice |-> 50]]

ItemPosition(good, quantity) == [good |-> good, quantity |-> quantity]

-----------------------------------------------------------------------------
(* Connections *)

\* travelTime is held in half sols
SpaceConnections == <<
    [from |-> EARTH,         to |-> MARS,          travelTime2 |-> 12, fuelCost |-> 100000],
    [from |-> EARTH,         to |-> MOON,          travelTime2 |-> 4,  fuelCost |-> 30000],
    [from |-> MOON,          to |-> MARS,          travelTime2 |-> 10, fuelCost |-> 50000],
    [from |-> SPACE_STATION, to |-> MARS,          travelTime2 |-> 10, fuelCost |-> 90000],
    [from |-> SPACE_STATION, to |-> MOON,          travelTime2 |-> 2,  fuelCost |-> 20000],
    [from |-> EARTH,         to |-> SPACE_STATION, travelTime2 |-> 1,  fuelCost |-> 500] >>

\* CONFIG.game.minutesPerSol (0.5), in quarter minutes
minutesPerSol == 2

\* Array.prototype.find over SpaceConnections: the first index that matches, or 0
FindConnection(from, to) ==
    IF \E i \in 1..Len(SpaceConnections) :
           SpaceConnections[i].from = from /\ SpaceConnections[i].to = to
    THEN CHOOSE i \in 1..Len(SpaceConnections) :
           /\ SpaceConnections[i].from = from /\ SpaceConnections[i].to = to
           /\ \A j \in 1..(i - 1) :
                ~(SpaceConnections[j].from = from /\ SpaceConnections[j].to = to)
    ELSE 0

\* a lookup that reads the connection list in its listed direction only
findListedConnection(from, to) == FindConnection(from, to)

\* the direct connection, else the reverse one, else 0 (undefined)
findSpaceConnection(from, to) ==
    IF FindConnection(from, to) # 0 THEN FindConnection(from, to)
    ELSE FindConnection(to, from)

\* connection.travelTime * minutesPerSol, in quarter minutes
TravelMinutes(conn) == (SpaceConnections[conn].travelTime2 * minutesPerSol) \div 2

-----------------------------------------------------------------------------
(* Sell-route states *)

IDLE == "idle"
LOADING == "loading"
TRAVELING_TO_EARTH == "to_earth"
SELLING == "selling"
TRAVELING_TO_ORIGIN == "to_origin"

SellRouteState == {IDLE, LOADING, TRAVELING_TO_EARTH, SELLING, TRAVELING_TO_ORIGIN}

-----------------------------------------------------------------------------
(* LevelSystem *)

\* LevelSystem.MAX_LEVEL as the field initializer sets it
DEFAULT_MAX_LEVEL == 999
\* InfrastructureModule and Colony overwrite MAX_LEVEL after super() has run
INFRASTRUCTURE_MAX_LEVEL == 499
COLONY_MAX_LEVEL == 1499

\* LevelSystem.constructor: MAX_LEVEL is still the default when the level is clamped
LevelSystemNew(initialLevel) == Min(initialLevel, DEFAULT_MAX_LEVEL)

\* LevelSystem.setLevel
SetLevel(level, maxLevel) == Min(level, maxLevel)

\* an increment that does not look at the max level
incrementPastMax(level, maxLevel) == level + 1

\* LevelSystem.incrementLevel
IncrementLevel(level, maxLevel) == IF level >= maxLevel THEN level ELSE level + 1

-----------------------------------------------------------------------------
(* Math.pow, tabulated *)

\* floor(100 * 1.2^(level+1)), level 1..12
RocketCapacityTable ==
    <<144, 172, 207, 248, 298, 358, 429, 515, 619, 743, 891, 1069>>

\* floor(100 * 1.175^(level+1)), level 1..30
ColonyCapacityTable ==
    <<138, 162, 190, 223, 263, 309, 363, 426, 501, 589, 692, 813, 956, 1123, 1320,
      1551, 1822, 2141, 2516, 2956, 3474, 4081, 4796, 5635, 6621, 7780, 9142, 10742,
      12622, 14831>>

\* 200 * 1.2^(level-1) in thousandths, level 1..7
StoreroomBenefitTable ==
    <<200000, 240000, 288000, 345600, 414720, 497664, 597196>>

\* 1.2^(level-1) in thousandths, level 1..7
Pow12Table == <<1000, 1200, 1440, 1728, 2073, 2488, 2985>>

\* 1.02^(level-1) in ten-thousandths, level 1..30
Pow102Table ==
    <<10000, 10200, 10404, 10612, 10824, 11040, 11261, 11486, 11716, 11950, 12189,
      12433, 12682, 12936, 13194, 13458, 13727, 14002, 14282, 14568, 14859, 15156,
      15459, 15768, 16084, 16406, 16734, 17068, 17410, 17758>>

\* Math.floor(50 * Math.pow(1.2, level)), level 1..62, in credits
UpgradeCostTable ==
    <<60, 72, 86, 103, 124, 149, 179, 214, 257, 309, 371, 445, 534, 641, 770, 924,
      1109, 1331, 1597, 1916, 2300, 2760, 3312, 3974, 4769, 5723, 6868, 8242, 9890,
      11868, 14242, 17091, 20509, 24611, 29533, 35440, 42528, 51033, 61240, 73488,
      88186, 105823, 126988, 152385, 182863, 219435, 263322, 315987, 379184, 455021,
      546026, 655231, 786277, 943533, 1132240, 1358688, 1630425, 1956510, 2347813,
      2817375, 3380850, 4057021>>

-----------------------------------------------------------------------------
(* StorageHolder *)

RECURSIVE SumQuantity(_)
SumQuantity(items) ==
    IF items = <<>> THEN 0
    ELSE Head(items).quantity + SumQuantity(Tail(items))

\* StorageHolder.getTotalQuantity
getTotalQuantity(items) == Floor(SumQuantity(items))

\* items.find(item => item.good.getId() === goodId): its index, or 0
FindItem(items, goodId) ==
    IF \E i \in 1..Len(items) : items[i].good = goodId
    THEN CHOOSE i \in 1..Len(items) :
            items[i].good = goodId /\ \A j \in 1..(i - 1) : items[j].good # goodId
    ELSE 0

\* the quantity held of a good (0 when there is no position)
QuantityOf(items, goodId) ==
    IF FindItem(items, goodId) = 0 THEN 0 ELSE items[FindItem(items, goodId)].quantity

\* an add that never looks for the position the good already has
addAlwaysAppends(items, capacity, good, quantity) ==
    IF getTotalQuantity(items) + quantity <= capacity
    THEN [ok |-> TRUE, items |-> Append(items, ItemPosition(good, quantity))]
    ELSE [ok |-> FALSE, items |-> items]

\* StorageHolder.addItemPosition against the holder's capacity
addItemPosition(items, capacity, good, quantity) ==
    IF getTotalQuantity(items) + quantity <= capacity
    THEN [ok |-> TRUE,
          items |-> IF FindItem(items, good) # 0
                    THEN [items EXCEPT ![FindItem(items, good)].quantity = @ + quantity]
                    ELSE Append(items, ItemPosition(good, quantity))]
    ELSE [ok |-> FALSE, items |-> items]

\* StorageHolder.removeItemPosition
removeItemPosition(items, goodId) == SelectSeq(items, LAMBDA it : it.good # goodId)

\* StorageHolder.reduceItemQuantity: the position is decremented first and, when the
\* result is negative, the amount is added back
reduceItemQuantity(items, goodId, amount) ==
    IF FindItem(items, goodId) # 0
    THEN LET k == FindItem(items, goodId)
             reduced == NumSub(items[k].quantity, amount)
         IN  IF reduced < 0
             THEN [ok |-> FALSE,
                   items |-> [items EXCEPT ![k].quantity = NumAdd(reduced, amount)]]
             ELSE [ok |-> TRUE, items |-> [items EXCEPT ![k].quantity = reduced]]
    ELSE [ok |-> FALSE, items |-> items]

\* the fuel purchases write the position directly, past the capacity check
ForceAddItem(items, good, quantity) ==
    IF FindItem(items, good) # 0
    THEN [items EXCEPT ![FindItem(items, good)].quantity = @ + quantity]
    ELSE Append(items, ItemPosition(good, quantity))

-----------------------------------------------------------------------------
(* Modules and colonies *)

PRODUCTION == "production"
INFRASTRUCTURE == "infrastructure"
ROCKET_LAB == 0
STOREROOM == 1

\* new ProductionModule(goodId, level), new InfrastructureModule(infrastructureId, level)
ProductionModule(goodId, level) ==
    [moduleType |-> PRODUCTION, id |-> goodId, level |-> LevelSystemNew(level)]
InfrastructureModule(infrastructureId, level) ==
    [moduleType |-> INFRASTRUCTURE, id |-> infrastructureId, level |-> LevelSystemNew(level)]

\* new Colony(colonyId, name, locationId, initialLevel, colonyModules)
Colony(colonyId, locationId, initialLevel, colonyModules) ==
    [colonyId |-> colonyId, locationId |-> locationId,
     level |-> LevelSystemNew(initialLevel),
     colonyModules |-> colonyModules, items |-> <<>>]

\* InfrastructureModule.getBenefitValue of a rocket lab
RocketLabBenefit(level) == (level \div 10) + 1

RECURSIVE StoreroomBonus(_)
\* the sum of getBenefitValue over the STOREROOM modules, in thousandths
StoreroomBonus(modules) ==
    IF modules = <<>> THEN 0
    ELSE (IF Head(modules).moduleType = INFRASTRUCTURE /\ Head(modules).id = STOREROOM
          THEN StoreroomBenefitTable[Head(modules).level] ELSE 0)
         + StoreroomBonus(Tail(modules))

\* Colony.getCapacity, in eighths: modifier^2 * floor(base + storeroomBonus)
ColonyCapacity(colony) ==
    LET m2 == ProductionModifier2(colony.locationId.type)
        whole == (ColonyCapacityTable[colony.level] * 1000
                    + StoreroomBonus(colony.colonyModules)) \div 1000
    IN  (m2 * m2 * whole * QUnit) \div 4

\* StorageHolder.getCapacity of a rocket (baseCapacity 100, scaleFactor 1.2), in eighths
RocketCapacity(rocket) == Qty(RocketCapacityTable[rocket.level])

\* Colony.getCompanyModulesAllowed
getCompanyModulesAllowed(level) ==
    IF level >= 999 THEN 15
    ELSE IF level >= 200 THEN 12
    ELSE IF level >= 50 THEN 9
    ELSE IF level >= 10 THEN 6
    ELSE 3

\* ProductionModule.getQuantityPerSol() * Colony.getProductionMultiplier(), in eighths
\* (rounded down): base * 1.2^(level-1) * modifier^2 * 1.02^(colonyLevel-1)
ProducedAmount(colony, module) ==
    LET m2 == ProductionModifier2(colony.locationId.type)
        a == GoodsRegistry[module.id].baseProductionPerSol10 * Pow12Table[module.level]
        b == (a * m2 * m2) \div 100
    IN  (b * Pow102Table[colony.level]) \div 500000

-----------------------------------------------------------------------------
(* Rocket *)

\* new Rocket(id, name, estimatedTravelTime, locationId, initialLevel)
Rocket(id, estimatedTravelTime, locationId, initialLevel) ==
    [id |-> id, level |-> LevelSystemNew(initialLevel), items |-> <<>>,
     estimatedTravelTime |-> estimatedTravelTime, initialTravelTime |-> 0,
     locationId |-> locationId, destinationId |-> NoLocation,
     sellRoute |-> FALSE, sellRouteOriginId |-> 0, sellRouteState |-> IDLE]

\* Rocket.startTravel: the outcome and the rocket afterwards
RocketStartTravel(rocket, destinationId) ==
    IF rocket.destinationId # NoLocation THEN [ok |-> FALSE, rocket |-> rocket]
    ELSE IF rocket.locationId.uuid = destinationId.uuid THEN [ok |-> FALSE, rocket |-> rocket]
    ELSE LET connection == findSpaceConnection(rocket.locationId.type, destinationId.type)
         IN  IF connection # 0
             THEN [ok |-> TRUE,
                   rocket |-> [rocket EXCEPT !.destinationId = destinationId,
                                             !.estimatedTravelTime = TravelMinutes(connection),
                                             !.initialTravelTime = TravelMinutes(connection)]]
             ELSE [ok |-> FALSE, rocket |-> rocket]

\* an arrival that moves the rocket and leaves its timers as they are
arriveWithoutReset(rocket) ==
    IF rocket.destinationId # NoLocation
    THEN [rocket EXCEPT !.locationId = rocket.destinationId, !.destinationId = NoLocation]
    ELSE rocket

\* Rocket.completeTravel
completeTravel(rocket) ==
    IF rocket.destinationId # NoLocation
    THEN [rocket EXCEPT !.locationId = rocket.destinationId,
                        !.destinationId = NoLocation,
                        !.estimatedTravelTime = 0,
                        !.initialTravelTime = 0]
    ELSE rocket

-----------------------------------------------------------------------------
(* The session as a value: what the GameManager methods read and write *)

Session ==
    [credits |-> credits, colonies |-> colonies, rockets |-> rockets,
     missions |-> explorationMissions]

\* a deduction that checks the balance and then charges nothing
deductNothing(s, amount) == [ok |-> s.credits >= amount, s |-> s]

\* Company.deductMoney
deductMoney(s, amount) ==
    IF s.credits >= amount
    THEN [ok |-> TRUE, s |-> [s EXCEPT !.credits = @ - amount]]
    ELSE [ok |-> FALSE, s |-> s]

\* a payment that never reaches the treasury
addMoneyDropped(s, amount) == s

\* Company.addMoney
addMoney(s, amount) == [s EXCEPT !.credits = @ + amount]

\* colonies.find(c => c.locationId.getType() === type): its index, or 0
FindColonyByType(s, type) ==
    IF \E i \in 1..Len(s.colonies) : s.colonies[i].locationId.type = type
    THEN CHOOSE i \in 1..Len(s.colonies) :
            /\ s.colonies[i].locationId.type = type
            /\ \A j \in 1..(i - 1) : s.colonies[j].locationId.type # type
    ELSE 0

\* colonies.find(c => c.locationId.getId() === uuid): its index, or 0
FindColonyAt(s, uuid) ==
    IF \E i \in 1..Len(s.colonies) : s.colonies[i].locationId.uuid = uuid
    THEN CHOOSE i \in 1..Len(s.colonies) :
            /\ s.colonies[i].locationId.uuid = uuid
            /\ \A j \in 1..(i - 1) : s.colonies[j].locationId.uuid # uuid
    ELSE 0

\* GameManager.getColonyById: its index, or 0 (null)
getColonyById(s, colonyId) ==
    IF colonyId = 0 THEN 0
    ELSE IF \E i \in 1..Len(s.colonies) : s.colonies[i].colonyId = colonyId
    THEN CHOOSE i \in 1..Len(s.colonies) :
            /\ s.colonies[i].colonyId = colonyId
            /\ \A j \in 1..(i - 1) : s.colonies[j].colonyId # colonyId
    ELSE 0

\* GameManager.getGlobalLocation
getGlobalLocation(s, type) ==
    IF FindColonyByType(s, type) # 0
    THEN s.colonies[FindColonyByType(s, type)].locationId
    ELSE SpaceLocation(type, "loc-" \o type)

\* explorationMissions.findIndex(m => m.rocketId === rocketId), or 0
FindMission(s, rocketId) ==
    IF \E i \in 1..Len(s.missions) : s.missions[i].rocketId = rocketId
    THEN CHOOSE i \in 1..Len(s.missions) :
            /\ s.missions[i].rocketId = rocketId
            /\ \A j \in 1..(i - 1) : s.missions[j].rocketId # rocketId
    ELSE 0

\* Array.prototype.splice(index, 1)
RemoveAt(seq, index) ==
    [k \in 1..(Len(seq) - 1) |-> IF k < index THEN seq[k] ELSE seq[k + 1]]

-----------------------------------------------------------------------------
(* Trade-route automation *)

RECURSIVE LoadLoop(_, _, _, _, _, _)
\* the for loop of loadAllGoods over the non-fuel positions k..Len(list)
LoadLoop(list, k, rItems, cItems, capacity, left) ==
    IF k > Len(list) \/ left <= 0 THEN [rocketItems |-> rItems, sourceItems |-> cItems]
    ELSE LET good == list[k].good
             amountToLoad == Min(QuantityOf(cItems, good), left)
         IN  Bind(addItemPosition(rItems, capacity, good, amountToLoad), LAMBDA added :
                 IF added.ok
                 THEN Bind(<<reduceItemQuantity(cItems, good, amountToLoad).items,
                             left - amountToLoad>>, LAMBDA rest :
                          LoadLoop(list, k + 1, added.items, rest[1], capacity, rest[2]))
                 ELSE LoadLoop(list, k + 1, rItems, cItems, capacity, left))

\* GameManager.loadAllGoods(rocket, source)
loadAllGoods(rocket, source) ==
    Bind(SelectSeq(source.items, LAMBDA it : it.good # FUEL), LAMBDA list :
        LoadLoop(list, 1, rocket.items, source.items, RocketCapacity(rocket),
                 RocketCapacity(rocket) - getTotalQuantity(rocket.items)))


\* a price factor that is the same everywhere
samePriceEverywhere(type) == 1

\* the price factor of the fuel bought at the origin of a trade route
FuelPriceMultiplier(type) == IF type = EARTH THEN 1 ELSE 10

\* GameManager.startSellRouteFromOrigin for rocket i: the session afterwards and the result
startSellRouteFromOrigin(s, i) ==
    LET o == getColonyById(s, s.rockets[i].sellRouteOriginId)
    IN  IF o = 0
        THEN [s |-> [s EXCEPT !.rockets[i].sellRoute = FALSE], ok |-> FALSE]
        ELSE
        Bind(loadAllGoods(s.rockets[i], s.colonies[o]), LAMBDA loaded :
        Bind([s EXCEPT !.rockets[i].items = loaded.rocketItems,
                       !.colonies[o].items = loaded.sourceItems], LAMBDA s1 :
        LET connection == findSpaceConnection(s1.colonies[o].locationId.type, EARTH)
        IN  IF connection = 0
            THEN [s |-> [s1 EXCEPT !.rockets[i].sellRoute = FALSE], ok |-> FALSE]
            ELSE
            LET fuelNeeded == Qty(SpaceConnections[connection].fuelCost)
                availableFuel == QuantityOf(s1.colonies[o].items, FUEL)
                fuelToBuy == fuelNeeded - availableFuel
                cost == fuelToBuy * GoodsRegistry[FUEL].marketBuyPrice
                          * FuelPriceMultiplier(s1.colonies[o].locationId.type)
                paid == deductMoney(s1, cost)
            IN  IF availableFuel < fuelNeeded /\ ~paid.ok
                THEN [s |-> s1, ok |-> FALSE]
                ELSE
                Bind(IF availableFuel < fuelNeeded
                     THEN [paid.s EXCEPT !.colonies[o].items = ForceAddItem(@, FUEL, fuelToBuy)]
                     ELSE s1, LAMBDA s2 :
                LET earthLocation == s2.colonies[FindColonyByType(s2, EARTH)].locationId
                IN  [s |-> [s2 EXCEPT
                              !.colonies[o].items = reduceItemQuantity(@, FUEL, fuelNeeded).items,
                              !.rockets[i] =
                                  [RocketStartTravel(s2.rockets[i], earthLocation).rocket
                                      EXCEPT !.sellRouteState = TRAVELING_TO_EARTH]],
                     ok |-> TRUE])))

RECURSIVE SellValue(_)
\* the credits executeSellAtEarth earns: marketSellPrice * floor(quantity) over the cargo
SellValue(items) ==
    IF items = <<>> THEN 0
    ELSE GoodsRegistry[Head(items).good].marketSellPrice * Floor(Head(items).quantity)
         + SellValue(Tail(items))

\* the cargo after every position was reduced by floor(quantity)
SellAll(items) ==
    [k \in 1..Len(items) |->
        IF items[k].quantity - Floor(items[k].quantity) < 0 THEN items[k]
        ELSE [items[k] EXCEPT !.quantity = @ - Floor(items[k].quantity)]]

\* GameManager.executeSellAtEarth for rocket i
executeSellAtEarth(s, i) ==
    Bind(addMoney([s EXCEPT !.rockets[i].items = SellAll(@)],
                  SellValue(s.rockets[i].items)), LAMBDA s1 :
    LET e == FindColonyByType(s, EARTH)
        o == getColonyById(s1, s1.rockets[i].sellRouteOriginId)
    IN  IF o = 0
        THEN [s |-> [s1 EXCEPT !.rockets[i].sellRoute = FALSE], ok |-> FALSE]
        ELSE
        LET connection == findSpaceConnection(EARTH, s1.colonies[o].locationId.type)
        IN  IF connection = 0
            THEN [s |-> [s1 EXCEPT !.rockets[i].sellRoute = FALSE], ok |-> FALSE]
            ELSE
            LET fuelNeeded == Qty(SpaceConnections[connection].fuelCost)
                availableFuel == QuantityOf(s1.colonies[e].items, FUEL)
                fuelToBuy == fuelNeeded - availableFuel
                cost == fuelToBuy * GoodsRegistry[FUEL].marketBuyPrice
                paid == deductMoney(s1, cost)
            IN  IF availableFuel < fuelNeeded /\ ~paid.ok
                THEN [s |-> [s1 EXCEPT !.rockets[i].sellRoute = FALSE], ok |-> FALSE]
                ELSE
                Bind(IF availableFuel < fuelNeeded
                     THEN [paid.s EXCEPT !.colonies[e].items = ForceAddItem(@, FUEL, fuelToBuy)]
                     ELSE s1, LAMBDA s2 :
                    [s |-> [s2 EXCEPT
                              !.colonies[e].items = reduceItemQuantity(@, FUEL, fuelNeeded).items,
                              !.rockets[i] =
                                  [RocketStartTravel(s2.rockets[i], s2.colonies[o].locationId).rocket
                                      EXCEPT !.sellRouteState = TRAVELING_TO_ORIGIN]],
                     ok |-> TRUE]))

\* a reload that stays in the loading state and dispatches nothing
reloadWithoutRestart(s, i) ==
    [s |-> [s EXCEPT !.rockets[i].sellRouteState = LOADING], ok |-> TRUE]

\* GameManager.executeReloadAtOrigin for rocket i
executeReloadAtOrigin(s, i) ==
    Bind([s EXCEPT !.rockets[i].sellRouteState = IDLE],
         LAMBDA idle : startSellRouteFromOrigin(idle, i))

\* GameManager.handleSellRouteAutomation for rocket i
handleSellRouteAutomation(s, i) ==
    LET rocket == s.rockets[i]
        o == getColonyById(s, rocket.sellRouteOriginId)
    IN  IF ~rocket.sellRoute THEN [s |-> s, ok |-> FALSE]
        ELSE IF rocket.sellRouteState = TRAVELING_TO_EARTH
        THEN IF rocket.locationId.type = EARTH THEN executeSellAtEarth(s, i)
             ELSE [s |-> s, ok |-> FALSE]
        ELSE IF rocket.sellRouteState = TRAVELING_TO_ORIGIN
        THEN IF o # 0 /\ rocket.locationId.uuid = s.colonies[o].locationId.uuid
             THEN executeReloadAtOrigin(s, i)
             ELSE [s |-> s, ok |-> FALSE]
        ELSE IF rocket.sellRouteState = IDLE
        THEN startSellRouteFromOrigin(s, i)
        ELSE [s |-> s, ok |-> FALSE]

-----------------------------------------------------------------------------
(* The tick driver's rocket update *)

\* an arrival that founds the colony without looking for one at the target type
ResolveMissionAlwaysFounds(s, i) ==
    LET m == FindMission(s, s.rockets[i].id)
    IN  IF m = 0 THEN s
        ELSE LET here == s.rockets[i].locationId
                 s1 == IF here.type = s.missions[m].targetType
                       THEN [s EXCEPT !.colonies =
                               Append(@, Colony(Len(s.colonies) + 1, here, 1, <<>>))]
                       ELSE s
             IN  [s1 EXCEPT !.missions = RemoveAt(@, m)]

\* the arrival part of GameManager.updateRockets for rocket i, after completeTravel
ResolveMission(s, i) ==
    LET m == FindMission(s, s.rockets[i].id)
    IN  IF m = 0 THEN s
        ELSE LET targetType == s.missions[m].targetType
                 here == s.rockets[i].locationId
                 alreadyColonized == FindColonyByType(s, targetType) # 0
                 s1 == IF here.type = targetType /\ ~alreadyColonized
                       THEN [s EXCEPT !.colonies =
                               Append(@, Colony(Len(s.colonies) + 1, here, 1, <<>>))]
                       ELSE s
             IN  [s1 EXCEPT !.missions = RemoveAt(@, m)]

\* the body of the forEach of GameManager.updateRockets for rocket i
UpdateRocket(s, i, deltaMinutes) ==
    IF s.rockets[i].destinationId = NoLocation THEN s
    ELSE LET s1 == [s EXCEPT !.rockets[i].estimatedTravelTime = @ - deltaMinutes]
             s2 == [s1 EXCEPT !.rockets[i] = completeTravel(@)]
         IN  IF s1.rockets[i].estimatedTravelTime > 0 THEN s1
             ELSE Bind(s2, LAMBDA arrived :
                  Bind(IF arrived.rockets[i].sellRoute
                       THEN handleSellRouteAutomation(arrived, i).s ELSE arrived,
                       LAMBDA s3 : ResolveMission(s3, i)))

RECURSIVE UpdateRocketsFrom(_, _, _)
UpdateRocketsFrom(s, i, deltaMinutes) ==
    IF i > Len(s.rockets) THEN s
    ELSE Bind(UpdateRocket(s, i, deltaMinutes),
              LAMBDA next : UpdateRocketsFrom(next, i + 1, deltaMinutes))

\* GameManager.updateRockets(deltaMinutes)
updateRockets(s, deltaMinutes) == UpdateRocketsFrom(s, 1, deltaMinutes)

-----------------------------------------------------------------------------
(* Exploration and travel orders *)

EXPLORATION_BASE_PRICE == 100000
EXPLORATION_PRICE_BASE == 4

RECURSIVE Pow(_, _)
Pow(b, e) == IF e = 0 THEN 1 ELSE b * Pow(b, e - 1)

NoQuote == [found |-> FALSE, priceCredits |-> 0, fuelUnits |-> 0, unlockMinutes |-> 0]

\* GameManager.getExplorationQuote(rocket, targetType); NoQuote is null
getExplorationQuote(s, rocket, targetType) ==
    LET connection == FindConnection(rocket.locationId.type, targetType)
    IN  IF connection = 0 THEN NoQuote
        ELSE [found |-> TRUE,
              priceCredits |->
                  Credits(EXPLORATION_BASE_PRICE
                            * Pow(EXPLORATION_PRICE_BASE, Max(0, Len(s.colonies) - 1))),
              fuelUnits |-> Qty(SpaceConnections[connection].fuelCost * 2),
              unlockMinutes |-> SpaceConnections[connection].travelTime2 * minutesPerSol]

\* GameManager.startExploration(rocket i, targetType)
startExploration(s, i, targetType) ==
    LET rocket == s.rockets[i]
        quote == getExplorationQuote(s, rocket, targetType)
        o == FindColonyAt(s, rocket.locationId.uuid)
        paid == deductMoney(s, quote.priceCredits)
        s1 == [paid.s EXCEPT !.colonies[o].items =
                                 reduceItemQuantity(@, FUEL, quote.fuelUnits).items]
        started == RocketStartTravel(rocket, getGlobalLocation(s1, targetType))
    IN  IF rocket.destinationId # NoLocation
        THEN [s |-> s, ok |-> FALSE, message |-> "Rocket is already traveling."]
        ELSE IF FindMission(s, rocket.id) # 0
        THEN [s |-> s, ok |-> FALSE, message |-> "Rocket is already on an exploration mission."]
        ELSE IF FindColonyByType(s, targetType) # 0
        THEN [s |-> s, ok |-> FALSE, message |-> "Target already has a colony."]
        ELSE IF ~quote.found
        THEN [s |-> s, ok |-> FALSE, message |-> "No valid route to target."]
        ELSE IF o = 0
        THEN [s |-> s, ok |-> FALSE, message |-> "Exploration must start from a colony."]
        ELSE IF FindItem(s.colonies[o].items, FUEL) = 0
                \/ QuantityOf(s.colonies[o].items, FUEL) < quote.fuelUnits
        THEN [s |-> s, ok |-> FALSE, message |-> "Not enough Fuel."]
        ELSE IF ~paid.ok
        THEN [s |-> s, ok |-> FALSE, message |-> "Not enough money."]
        ELSE IF ~started.ok
        THEN [s |-> [addMoney(s1, quote.priceCredits) EXCEPT !.colonies[o].items =
                        addItemPosition(@, ColonyCapacity(s1.colonies[o]), FUEL,
                                        quote.fuelUnits).items],
              ok |-> FALSE, message |-> "Failed to launch exploration."]
        ELSE [s |-> [s1 EXCEPT
                       !.rockets[i] = [started.rocket EXCEPT
                                          !.estimatedTravelTime = quote.unlockMinutes,
                                          !.initialTravelTime = quote.unlockMinutes],
                       !.missions = Append(@, [rocketId |-> rocket.id,
                                               targetType |-> targetType])],
              ok |-> TRUE, message |-> ""]

\* a start that takes the fuel position of the origin before it checks anything
startTravelTakesFuelFirst(s, i, targetType) ==
    LET o == FindColonyAt(s, s.rockets[i].locationId.uuid)
    IN  IF o = 0 THEN [s |-> s, ok |-> FALSE]
        ELSE [s |-> [s EXCEPT !.colonies[o].items = removeItemPosition(@, FUEL)],
              ok |-> FALSE]

\* GameManager.startTravel(rocket i, targetType)
startTravel(s, i, targetType) ==
    LET rocket == s.rockets[i]
        t == FindColonyByType(s, targetType)
        o == FindColonyAt(s, rocket.locationId.uuid)
        connection == findSpaceConnection(rocket.locationId.type, targetType)
        fuelUnits == Qty(SpaceConnections[connection].fuelCost)
        s1 == [s EXCEPT !.colonies[o].items = reduceItemQuantity(@, FUEL, fuelUnits).items]
        started == RocketStartTravel(rocket, s.colonies[t].locationId)
    IN  IF rocket.destinationId # NoLocation THEN [s |-> s, ok |-> FALSE]
        ELSE IF t = 0 THEN [s |-> s, ok |-> FALSE]
        ELSE IF o = 0 THEN [s |-> s, ok |-> FALSE]
        ELSE IF connection = 0 THEN [s |-> s, ok |-> FALSE]
        ELSE IF FindItem(s.colonies[o].items, FUEL) = 0
                \/ QuantityOf(s.colonies[o].items, FUEL) < fuelUnits
        THEN [s |-> s, ok |-> FALSE]
        ELSE IF ~started.ok
        THEN [s |-> [s1 EXCEPT !.colonies[o].items =
                        addItemPosition(@, ColonyCapacity(s1.colonies[o]), FUEL,
                                        fuelUnits).items],
              ok |-> FALSE]
        ELSE [s |-> [s1 EXCEPT !.rockets[i] = started.rocket], ok |-> TRUE]

\* GameManager.orderRocketTravel(rocket i, targetType)
orderRocketTravel(s, i, targetType) ==
    LET started == RocketStartTravel(s.rockets[i], getGlobalLocation(s, targetType))
    IN  [s |-> [s EXCEPT !.rockets[i] = started.rocket], ok |-> started.ok]

-----------------------------------------------------------------------------
(* Sol end *)

RECURSIVE ProductionList(_, _, _)
\* Colony.getTotalProductionPerSol: one entry per good, in order of first module
ProductionList(colony, k, acc) ==
    IF k > Len(colony.colonyModules) THEN acc
    ELSE IF colony.colonyModules[k].moduleType = PRODUCTION
    THEN ProductionList(colony, k + 1,
            ForceAddItem(acc, colony.colonyModules[k].id,
                         ProducedAmount(colony, colony.colonyModules[k])))
    ELSE ProductionList(colony, k + 1, acc)

RECURSIVE Deposit(_, _, _)
\* the forEach of Colony.endOfSolUpdate over the production entries k..Len(list)
Deposit(colony, list, k) ==
    IF k > Len(list) THEN colony
    ELSE IF list[k].quantity > 0
    THEN LET first == addItemPosition(colony.items, ColonyCapacity(colony),
                                      list[k].good, list[k].quantity)
             freeRoom == ColonyCapacity(colony) - getTotalQuantity(colony.items)
         IN  IF first.ok
             THEN Deposit([colony EXCEPT !.items = first.items], list, k + 1)
             ELSE Deposit([colony EXCEPT !.items =
                             addItemPosition(colony.items, ColonyCapacity(colony),
                                             list[k].good, freeRoom).items],
                          list, k + 1)
    ELSE Deposit(colony, list, k + 1)

\* Colony.endOfSolUpdate
endOfSolUpdate(colony) == Deposit(colony, ProductionList(colony, 1, <<>>), 1)

-----------------------------------------------------------------------------
(* Sol end, rocket building, the trade-route buttons *)

RECURSIVE EndOfSolAll(_, _)
\* colonies.forEach(colony => colony.endOfSolUpdate()) from colony k on
EndOfSolAll(cols, k) ==
    IF k > Len(cols) THEN cols
    ELSE EndOfSolAll([cols EXCEPT ![k] = endOfSolUpdate(cols[k])], k + 1)

\* a sol end that runs the update of the colonies a second time
passSolTwice(s) == [s EXCEPT !.colonies = EndOfSolAll(EndOfSolAll(s.colonies, 1), 1)]

\* GameManager.passSol on the colonies (GameSession.incrementSol is in the action)
passSol(s) == [s EXCEPT !.colonies = EndOfSolAll(s.colonies, 1)]

\* colony.getInfrastructureModules().find(ROCKET_LAB): its index, or 0
FindRocketLab(colony) ==
    IF \E k \in 1..Len(colony.colonyModules) :
          /\ colony.colonyModules[k].moduleType = INFRASTRUCTURE
          /\ colony.colonyModules[k].id = ROCKET_LAB
    THEN CHOOSE k \in 1..Len(colony.colonyModules) :
          /\ colony.colonyModules[k].moduleType = INFRASTRUCTURE
          /\ colony.colonyModules[k].id = ROCKET_LAB
          /\ \A j \in 1..(k - 1) : ~(/\ colony.colonyModules[j].moduleType = INFRASTRUCTURE
                                     /\ colony.colonyModules[j].id = ROCKET_LAB)
    ELSE 0

\* Math.floor(base * Math.pow(1.5, existingRockets)), in eighths of a unit
RocketCost(base, existingRockets) ==
    Qty((base * Pow(3, existingRockets)) \div Pow(2, existingRockets))

\* the costs array of the build-rocket handler
RocketCosts(existingRockets) ==
    <<ItemPosition(FUEL, RocketCost(50, existingRockets)),
      ItemPosition(O2, RocketCost(50, existingRockets)),
      ItemPosition(COMPUTER, RocketCost(10, existingRockets)),
      ItemPosition(CIRCUIT_BOARD, RocketCost(20, existingRockets))>>

RECURSIVE DeductCosts(_, _, _)
DeductCosts(items, costs, k) ==
    IF k > Len(costs) THEN items
    ELSE DeductCosts(reduceItemQuantity(items, costs[k].good, costs[k].quantity).items,
                     costs, k + 1)

\* the estimatedTravelTime the build-rocket handler passes to the constructor: 60 minutes
BUILT_ROCKET_TRAVEL_TIME == 60

\* the build-rocket handler for colony c
onBuildRocket(s, c) ==
    LET colony == s.colonies[c]
        lab == FindRocketLab(colony)
        existingRockets == Cardinality({i \in 1..Len(s.rockets) :
                               s.rockets[i].locationId.uuid = colony.locationId.uuid})
        costs == RocketCosts(existingRockets)
    IN  IF lab = 0 THEN [s |-> s, ok |-> FALSE]
        ELSE IF existingRockets >= RocketLabBenefit(colony.colonyModules[lab].level)
        THEN [s |-> s, ok |-> FALSE]
        ELSE IF \E k \in 1..Len(costs) :
                   \/ FindItem(colony.items, costs[k].good) = 0
                   \/ QuantityOf(colony.items, costs[k].good) < costs[k].quantity
        THEN [s |-> s, ok |-> FALSE]
        ELSE [s |-> [s EXCEPT
                       !.colonies[c].items = DeductCosts(@, costs, 1),
                       !.rockets = Append(@, Rocket(Len(s.rockets) + 1,
                                                    Minutes(BUILT_ROCKET_TRAVEL_TIME),
                                                    colony.locationId, 1))],
              ok |-> TRUE]

\* what createRocketCard calls dockedLocation: the colony rocket i is docked at, or 0
DockedColony(s, i) ==
    IF s.rockets[i].destinationId = NoLocation
    THEN FindColonyAt(s, s.rockets[i].locationId.uuid)
    ELSE 0

\* the card of rocket i shows the trade-route buttons
ShowsSellRouteToggle(s, i) ==
    /\ DockedColony(s, i) # 0
    /\ s.colonies[DockedColony(s, i)].locationId.type # EARTH

\* the three assignments of the onClick of the Start Sell Route button of rocket i
ArmSellRoute(s, i) ==
    [s EXCEPT !.rockets[i].sellRoute = TRUE,
              !.rockets[i].sellRouteOriginId = s.colonies[DockedColony(s, i)].colonyId,
              !.rockets[i].sellRouteState = IDLE]

\* the onClick of the Start Sell Route button of rocket i
onStartSellRoute(s, i) == handleSellRouteAutomation(ArmSellRoute(s, i), i)

\* the onClick of the Stop Sell Route button of rocket i
onStopSellRoute(s, i) ==
    [s EXCEPT !.rockets[i].sellRoute = FALSE,
              !.rockets[i].sellRouteOriginId = 0,
              !.rockets[i].sellRouteState = IDLE]

-----------------------------------------------------------------------------
(* The session snapshot: toData and fromData *)

\* the whole GameSession as a value (sol counters included)
Snapshot ==
    [credits |-> credits, colonies |-> colonies, rockets |-> rockets,
     missions |-> explorationMissions,
     totalSolsPassed |-> totalSolsPassed, currentSol |-> currentSol,
     currentSolProgress |-> currentSolProgress]

\* Colony.toData
ColonyToData(colony) ==
    [colonyId |-> colony.colonyId,
     location |-> colony.locationId,
     colonyModules |-> [k \in 1..Len(colony.colonyModules) |->
                          [type |-> colony.colonyModules[k].moduleType,
                           id |-> colony.colonyModules[k].id,
                           level |-> colony.colonyModules[k].level]],
     storage |-> [items |-> colony.items, level |-> colony.level]]

\* Colony.fromData: the colony is rebuilt through its constructor
ColonyFromData(data) ==
    [Colony(data.colonyId, data.location, data.storage.level, <<>>) EXCEPT
        !.items = data.storage.items,
        !.colonyModules =
            [k \in 1..Len(data.colonyModules) |->
                IF data.colonyModules[k].type = INFRASTRUCTURE
                THEN InfrastructureModule(data.colonyModules[k].id, data.colonyModules[k].level)
                ELSE ProductionModule(data.colonyModules[k].id, data.colonyModules[k].level)]]

\* Rocket.toData (destination NoLocation is null)
RocketToData(rocket) ==
    [id |-> rocket.id,
     estimatedTravelTime |-> rocket.estimatedTravelTime,
     initialTravelTime |-> rocket.initialTravelTime,
     location |-> rocket.locationId,
     destination |-> rocket.destinationId,
     storage |-> [items |-> rocket.items, level |-> rocket.level],
     sellRoute |-> rocket.sellRoute,
     sellRouteOriginId |-> rocket.sellRouteOriginId,
     sellRouteState |-> rocket.sellRouteState]

\* locations.get(data.uuid) ?? SpaceLocation.fromData(data)
ResolveLocation(cols, data) ==
    IF \E k \in 1..Len(cols) : cols[k].locationId.uuid = data.uuid
    THEN cols[CHOOSE k \in 1..Len(cols) :
                /\ cols[k].locationId.uuid = data.uuid
                /\ \A j \in (k + 1)..Len(cols) : cols[j].locationId.uuid # data.uuid].locationId
    ELSE SpaceLocation(data.type, data.uuid)

\* Rocket.fromData: the rocket is rebuilt through its constructor
RocketFromData(data, cols) ==
    LET rocket == Rocket(data.id, data.estimatedTravelTime,
                         ResolveLocation(cols, data.location), data.storage.level)
    IN  [rocket EXCEPT
            !.initialTravelTime = data.initialTravelTime,
            !.items = data.storage.items,
            !.destinationId = IF data.destination # NoLocation
                              THEN ResolveLocation(cols, data.destination)
                              ELSE rocket.destinationId,
            !.sellRoute = data.sellRoute,
            !.sellRouteOriginId = data.sellRouteOriginId,
            !.sellRouteState = data.sellRouteState]

\* GameSession.toData (with Company.toData)
toData(session) ==
    [credits |-> session.credits,
     colonies |-> [k \in 1..Len(session.colonies) |-> ColonyToData(session.colonies[k])],
     rockets |-> [k \in 1..Len(session.rockets) |-> RocketToData(session.rockets[k])],
     totalSolsPassed |-> session.totalSolsPassed,
     currentSol |-> session.currentSol,
     currentSolProgress |-> session.currentSolProgress,
     explorationMissions |-> session.missions]

\* GameSession.fromData (with Company.fromData)
fromData(data) ==
    LET cols == [k \in 1..Len(data.colonies) |-> ColonyFromData(data.colonies[k])]
    IN  [credits |-> data.credits,
         colonies |-> cols,
         rockets |-> [k \in 1..Len(data.rockets) |-> RocketFromData(data.rockets[k], cols)],
         missions |-> [k \in 1..Len(data.explorationMissions) |->
                          [rocketId |-> data.explorationMissions[k].rocketId,
                           targetType |-> data.explorationMissions[k].targetType]],
         totalSolsPassed |-> data.totalSolsPassed,
         currentSol |-> data.currentSol,
         currentSolProgress |-> data.currentSolProgress]

-----------------------------------------------------------------------------
(* Initial sessions *)

NoHistory == [rocket |-> 0, startCredits |-> 0, fuelReady |-> FALSE, funded |-> FALSE,
              cargoValue |-> 0, done |-> FALSE, creditsOnReturn |-> 0]

WithItems(holder, items) == [holder EXCEPT !.items = items]

StationLocation == SpaceLocation(SPACE_STATION, "loc-Space Station")
MoonLocation == SpaceLocation(MOON, "loc-Moon")

\* GameManager.createNewSession: 5000 credits, the Earth HQ with a level 3 food module
EarthHQ(level, modules, items) == WithItems(Colony(1, EarthHQLocation, level, modules), items)
NewSession ==
    [credits |-> Credits(5000),
     colonies |-> <<EarthHQ(1, <<ProductionModule(FOOD, 3)>>, <<>>)>>,
     rockets |-> <<>>, missions |-> <<>>]

\* a rocket that has flown before and is docked at the location
DockedRocket(id, locationId) == Rocket(id, 0, locationId, 1)

\* the Earth HQ has a rocket lab and holds the goods of one rocket
ShipyardSession ==
    [NewSession EXCEPT
        !.colonies = <<EarthHQ(1, <<ProductionModule(FOOD, 3),
                                    InfrastructureModule(ROCKET_LAB, 1)>>,
                               <<ItemPosition(FUEL, Qty(50)), ItemPosition(O2, Qty(50)),
                                 ItemPosition(COMPUTER, Qty(10)),
                                 ItemPosition(CIRCUIT_BOARD, Qty(20))>>)>>]

\* the Earth HQ (level 14) holds the fuel and the treasury the price of a first
\* exploration of the space station
ExplorerSession ==
    [credits |-> Credits(100000),
     colonies |-> <<EarthHQ(14, <<ProductionModule(FOOD, 3)>>,
                            <<ItemPosition(FUEL, Qty(1000))>>)>>,
     rockets |-> <<DockedRocket(1, EarthHQLocation)>>, missions |-> <<>>]

\* a colony on the space station with a level 1 food module
StationColony(level, items) ==
    WithItems(Colony(2, StationLocation, level, <<ProductionModule(FOOD, 1)>>), items)

\* a rocket docked at a station colony that holds the fuel of the outbound leg, the
\* Earth HQ holds the fuel of the return leg; cargo is the food the colony holds
TraderSession(food) ==
    [credits |-> Credits(5000),
     colonies |-> <<EarthHQ(14, <<ProductionModule(FOOD, 3)>>,
                            <<ItemPosition(FUEL, Qty(600))>>),
                    StationColony(20, <<ItemPosition(FUEL, Qty(500))>>
                                        \o (IF food > 0 THEN <<ItemPosition(FOOD, food)>>
                                            ELSE <<>>))>>,
     rockets |-> <<DockedRocket(1, StationLocation)>>, missions |-> <<>>]

\* a level 1 station colony (capacity 34.5) after 93 sols of food production
\* (34.875 units), no fuel anywhere, a treasury that pays the fuel of one cycle
SmallStationSession ==
    [credits |-> Credits(600000),
     colonies |-> <<EarthHQ(1, <<ProductionModule(FOOD, 3)>>, <<>>),
                    StationColony(1, <<ItemPosition(FOOD, 279)>>)>>,
     rockets |-> <<DockedRocket(1, StationLocation)>>, missions |-> <<>>]

\* a rocket whose trade route could not start for lack of funds (it stays docked
\* at its origin on the Moon with sellRoute set); since then the Moon colony
\* (level 27) has produced fuel and the treasury has grown
WaitingRocket ==
    [DockedRocket(1, MoonLocation) EXCEPT
        !.sellRoute = TRUE, !.sellRouteOriginId = 2, !.sellRouteState = IDLE]
WaitingTraderSession ==
    [credits |-> Credits(400000),
     colonies |-> <<EarthHQ(1, <<ProductionModule(FOOD, 3)>>, <<>>),
                    WithItems(Colony(2, MoonLocation, 27, <<ProductionModule(FUEL, 1)>>),
                              <<ItemPosition(FUEL, Qty(130000))>>)>>,
     rockets |-> <<WaitingRocket>>, missions |-> <<>>]

\* the clock when the GameManager is constructed: lastTickTime and lastRocketUpdateTime
\* are Date.now(), lastSolPassed is 0 (not set); times are in quarter minutes, and
\* departedAt[i] is the time at which the flight of rocket i was ordered (0: none)
NewClock == [now |-> 1, lastRocketUpdateTime |-> 1, lastSolPassed |-> 0, departedAt |-> <<>>]

InitSessions ==
    {NewSession, ShipyardSession, ExplorerSession, TraderSession(0), TraderSession(Qty(34)),
     SmallStationSession, WaitingTraderSession}

InitFrom(sessions) ==
    /\ \E s \in sessions :
          /\ credits = s.credits
          /\ colonies = s.colonies
          /\ rockets = s.rockets
          /\ explorationMissions = s.missions
    /\ totalSolsPassed = 0
    /\ currentSol = 1
    /\ currentSolProgress = 0
    /\ tickCounter = 0
    /\ saved = <<>>
    /\ hist = NoHistory
    /\ clock = NewClock

Init == InitFrom(InitSessions)

-----------------------------------------------------------------------------
(* Actions *)

\* the sols the model lets pass
MaxSols == 2

\* the elapsed time between two rocket updates, in quarter minutes
Deltas == {0, 1, 8}

\* the session fields take the values of s
Becomes(s) ==
    /\ credits' = s.credits
    /\ colonies' = s.colonies
    /\ rockets' = s.rockets
    /\ explorationMissions' = s.missions

RECURSIVE UpdateRocketsUpTo(_, _, _)
\* the session after the forEach of updateRockets has handled rockets 1..i
UpdateRocketsUpTo(s, i, deltaMinutes) ==
    IF i = 0 THEN s
    ELSE Bind(UpdateRocketsUpTo(s, i - 1, deltaMinutes),
              LAMBDA before : UpdateRocket(before, i, deltaMinutes))

\* this update brings the observed rocket back to the origin of its trade route
ArrivesBackAtOrigin(s, i, deltaMinutes) ==
    /\ i # 0
    /\ s.rockets[i].sellRoute
    /\ s.rockets[i].sellRouteState = TRAVELING_TO_ORIGIN
    /\ s.rockets[i].destinationId # NoLocation
    /\ s.rockets[i].estimatedTravelTime - deltaMinutes <= 0
    /\ getColonyById(s, s.rockets[i].sellRouteOriginId) # 0
    /\ s.colonies[getColonyById(s, s.rockets[i].sellRouteOriginId)].locationId.uuid
          = s.rockets[i].destinationId.uuid

\* the rocket part of GameManager.tick: updateRockets(deltaMinutes)
UpdateRockets(deltaMinutes) ==
    /\ \E next \in {updateRockets(Session, deltaMinutes)} : Becomes(next)
    /\ hist' = IF ~hist.done /\ ArrivesBackAtOrigin(Session, hist.rocket, deltaMinutes)
               THEN [hist EXCEPT
                       !.done = TRUE,
                       !.creditsOnReturn =
                           UpdateRocketsUpTo(Session, hist.rocket - 1, deltaMinutes).credits]
               ELSE hist
    /\ UNCHANGED <<totalSolsPassed, currentSol, currentSolProgress, tickCounter, saved,
                   clock>>

\* the sol part of GameManager.tick: passSol()
PassSol ==
    /\ totalSolsPassed < MaxSols
    /\ Becomes(passSol(Session))
    /\ totalSolsPassed' = totalSolsPassed + 1
    /\ currentSol' = currentSol + 1
    /\ currentSolProgress' = 0
    /\ UNCHANGED <<tickCounter, saved, hist, clock>>

StartExploration(i, targetType) ==
    LET result == startExploration(Session, i, targetType)
    IN  /\ Becomes(result.s)
        /\ UNCHANGED <<totalSolsPassed, currentSol, currentSolProgress, tickCounter, saved,
                     hist, clock>>

StartTravel(i, targetType) ==
    LET result == startTravel(Session, i, targetType)
    IN  /\ Becomes(result.s)
        /\ UNCHANGED <<totalSolsPassed, currentSol, currentSolProgress, tickCounter, saved,
                     hist, clock>>

OrderRocketTravel(i, targetType) ==
    LET result == orderRocketTravel(Session, i, targetType)
    IN  /\ Becomes(result.s)
        /\ UNCHANGED <<totalSolsPassed, currentSol, currentSolProgress, tickCounter, saved,
                     hist, clock>>

\* both legs of the route of rocket i can be fuelled from what the colonies hold
FuelReady(s, i) ==
    LET o == DockedColony(s, i)
        out == findSpaceConnection(s.colonies[o].locationId.type, EARTH)
        back == findSpaceConnection(EARTH, s.colonies[o].locationId.type)
    IN  /\ out # 0
        /\ QuantityOf(s.colonies[o].items, FUEL) >= Qty(SpaceConnections[out].fuelCost)
        /\ QuantityOf(s.colonies[FindColonyByType(s, EARTH)].items, FUEL)
              >= Qty(SpaceConnections[back].fuelCost)

\* the treasury covers the fuel that the origin and the Earth colony lack for the two legs
Funded(s, i) ==
    LET o == DockedColony(s, i)
        type == s.colonies[o].locationId.type
        out == findSpaceConnection(type, EARTH)
        back == findSpaceConnection(EARTH, type)
        missingOut == Max(0, Qty(SpaceConnections[out].fuelCost)
                               - QuantityOf(s.colonies[o].items, FUEL))
        missingBack == Max(0, Qty(SpaceConnections[back].fuelCost)
                                - QuantityOf(s.colonies[FindColonyByType(s, EARTH)].items, FUEL))
    IN  /\ out # 0
        /\ s.credits >= missingOut * GoodsRegistry[FUEL].marketBuyPrice * FuelPriceMultiplier(type)
                           + missingBack * GoodsRegistry[FUEL].marketBuyPrice

StartSellRoute(i) ==
    /\ ShowsSellRouteToggle(Session, i)
    /\ ~rockets[i].sellRoute
    /\ LET result == onStartSellRoute(Session, i)
       IN  /\ Becomes(result.s)
           /\ hist' = IF result.ok
                      THEN [rocket |-> i, startCredits |-> credits,
                            fuelReady |-> FuelReady(Session, i),
                            funded |-> Funded(Session, i),
                            cargoValue |-> SellValue(result.s.rockets[i].items),
                            done |-> FALSE, creditsOnReturn |-> 0]
                      ELSE hist
    /\ UNCHANGED <<totalSolsPassed, currentSol, currentSolProgress, tickCounter, saved,
                   clock>>

StopSellRoute(i) ==
    /\ ShowsSellRouteToggle(Session, i)
    /\ rockets[i].sellRoute
    /\ Becomes(onStopSellRoute(Session, i))
    /\ UNCHANGED <<totalSolsPassed, currentSol, currentSolProgress, tickCounter, saved,
                     hist, clock>>

BuildRocket(c) ==
    LET result == onBuildRocket(Session, c)
    IN  /\ Becomes(result.s)
        /\ UNCHANGED <<totalSolsPassed, currentSol, currentSolProgress, tickCounter, saved,
                     hist, clock>>

\* SaveSystem.save(session)
SaveGame ==
    /\ saved' = <<toData(Snapshot)>>
    /\ UNCHANGED <<credits, colonies, rockets, explorationMissions, totalSolsPassed,
                   currentSol, currentSolProgress, tickCounter, hist, clock>>

\* SaveSystem.load() at start-up: the session is rebuilt by GameSession.fromData
LoadGame ==
    /\ saved # <<>>
    /\ Becomes(fromData(saved[1]))
    /\ totalSolsPassed' = fromData(saved[1]).totalSolsPassed
    /\ currentSol' = fromData(saved[1]).currentSol
    /\ currentSolProgress' = fromData(saved[1]).currentSolProgress
    /\ UNCHANGED <<tickCounter, saved, hist, clock>>

Next ==
    \/ \E d \in Deltas : UpdateRockets(d)
    \/ PassSol
    \/ \E i \in 1..Len(rockets), t \in LocationType : StartExploration(i, t)
    \/ \E i \in 1..Len(rockets), t \in LocationType : StartTravel(i, t)
    \/ \E i \in 1..Len(rockets), t \in LocationType : OrderRocketTravel(i, t)
    \/ \E i \in 1..Len(rockets) : StartSellRoute(i)
    \/ \E i \in 1..Len(rockets) : StopSellRoute(i)
    \/ \E c \in 1..Len(colonies) : BuildRocket(c)

Spec == Init /\ [][Next]_vars

-----------------------------------------------------------------------------
(* Storage and rocket consistency *)

\* C1: in every reachable state every storage holder (colony or rocket) has
\* getTotalQuantity() <= getCapacity()
C1_TotalWithinCapacity ==
    /\ \A c \in 1..Len(colonies) :
          getTotalQuantity(colonies[c].items) <= ColonyCapacity(colonies[c])
    /\ \A i \in 1..Len(rockets) :
          getTotalQuantity(rockets[i].items) <= RocketCapacity(rockets[i])

\* C2: a docked rocket (no destination) has estimatedTravelTime = initialTravelTime = 0,
\* a traveling rocket (with a destination) has 0 < estimatedTravelTime <= initialTravelTime
C2_TravelTimesMatchDocking ==
    \A i \in 1..Len(rockets) :
        IF rockets[i].destinationId = NoLocation
        THEN rockets[i].estimatedTravelTime = 0 /\ rockets[i].initialTravelTime = 0
        ELSE /\ 0 < rockets[i].estimatedTravelTime
             /\ rockets[i].estimatedTravelTime <= rockets[i].initialTravelTime

\* the connections that join two location types, in either direction
Links(a, b) ==
    {k \in 1..Len(SpaceConnections) :
        {SpaceConnections[k].from, SpaceConnections[k].to} = {a, b}}

\* C3: Rocket.startTravel(destination) returns true exactly when the rocket is docked,
\* the destination's id differs from the current location's id and a connection joins
\* the two location types in either direction; on success the destination is set and
\* initialTravelTime = estimatedTravelTime = travelTime * minutesPerSol (3 minutes from
\* Earth to Mars) and a second startTravel fails; on failure nothing has changed
C3_StartTravelContract ==
    \A i \in 1..Len(rockets), t \in LocationType :
        LET rocket == rockets[i]
            destination == getGlobalLocation(Session, t)
            result == RocketStartTravel(rocket, destination)
            links == Links(rocket.locationId.type, destination.type)
            expected == /\ rocket.destinationId = NoLocation
                        /\ destination.uuid # rocket.locationId.uuid
                        /\ links # {}
            travel == (SpaceConnections[CHOOSE k \in links : TRUE].travelTime2
                         * minutesPerSol) \div 2
        IN  /\ result.ok <=> expected
            /\ result.ok =>
                  /\ result.rocket = [rocket EXCEPT !.destinationId = destination,
                                                    !.estimatedTravelTime = travel,
                                                    !.initialTravelTime = travel]
                  /\ (rocket.locationId.type = EARTH /\ t = MARS) => travel = Minutes(3)
                  /\ \A t2 \in LocationType :
                        RocketStartTravel(result.rocket, getGlobalLocation(Session, t2))
                            = [ok |-> FALSE, rocket |-> result.rocket]
            /\ ~result.ok => result.rocket = rocket

\* a rocket is under way between the Moon and the Earth, against the direction the
\* connection is listed in, with the full travel time ahead
C3_Witness ==
    \E i \in 1..Len(rockets) :
        /\ rockets[i].locationId.type = MOON
        /\ rockets[i].destinationId.type = EARTH
        /\ rockets[i].estimatedTravelTime = Minutes(1)
        /\ rockets[i].initialTravelTime = Minutes(1)

-----------------------------------------------------------------------------
(* Trade-route steps *)

\* the session when the travel of rocket i has just completed, as updateRockets
\* hands it to handleSellRouteAutomation
Arrived(s, i) == [s EXCEPT !.rockets[i] = completeTravel(@)]

\* handleSellRouteAutomation has a step to take for rocket i
RouteStepDue(s, i) ==
    LET rocket == s.rockets[i]
        o == getColonyById(s, rocket.sellRouteOriginId)
    IN  /\ rocket.sellRoute
        /\ \/ rocket.sellRouteState = IDLE
           \/ rocket.sellRouteState = TRAVELING_TO_EARTH /\ rocket.locationId.type = EARTH
           \/ /\ rocket.sellRouteState = TRAVELING_TO_ORIGIN
              /\ o # 0
              /\ rocket.locationId.uuid = s.colonies[o].locationId.uuid

\* the sessions in which the program takes a trade-route step for rocket i next:
\* the Start Sell Route button, or the arrival of the traveling rocket
RouteStepSessions(i) ==
    (IF ShowsSellRouteToggle(Session, i) /\ ~rockets[i].sellRoute
     THEN {ArmSellRoute(Session, i)} ELSE {})
    \cup
    (IF rockets[i].destinationId # NoLocation /\ RouteStepDue(Arrived(Session, i), i)
     THEN {Arrived(Session, i)} ELSE {})

\* the step found the origin and the route and then failed: it lacked the funds
LackedFunds(s, i, result) ==
    LET o == getColonyById(s, s.rockets[i].sellRouteOriginId)
    IN  /\ ~result.ok
        /\ o # 0
        /\ Links(s.colonies[o].locationId.type, EARTH) # {}

\* treasury, all inventories and the travel state of every rocket are the same
SameHoldings(a, b) ==
    /\ a.credits = b.credits
    /\ Len(a.colonies) = Len(b.colonies)
    /\ \A c \in 1..Len(a.colonies) : a.colonies[c].items = b.colonies[c].items
    /\ Len(a.rockets) = Len(b.rockets)
    /\ \A j \in 1..Len(a.rockets) :
          /\ a.rockets[j].items = b.rockets[j].items
          /\ a.rockets[j].locationId = b.rockets[j].locationId
          /\ a.rockets[j].destinationId = b.rockets[j].destinationId
          /\ a.rockets[j].estimatedTravelTime = b.rockets[j].estimatedTravelTime
          /\ a.rockets[j].initialTravelTime = b.rockets[j].initialTravelTime

\* C4: a trade-route step that finds a prerequisite missing (origin not found, no
\* route, insufficient funds at the origin or at the destination) ends with
\* sellRoute = false and the rocket docked without a destination
C4_FailedStepStopsRoute ==
    \A i \in 1..Len(rockets) : \A s \in RouteStepSessions(i) :
        LET result == handleSellRouteAutomation(s, i)
        IN  ~result.ok => /\ ~result.s.rockets[i].sellRoute
                          /\ result.s.rockets[i].destinationId = NoLocation

\* C5: an engine action rejected for insufficient funds (startExploration, the fuel
\* purchase at the origin of a trade route, the return fuel at the destination)
\* leaves the treasury, all inventories and the rockets' travel state unchanged
C5_RejectionChangesNothing ==
    /\ \A i \in 1..Len(rockets), t \in LocationType :
          LET result == startExploration(Session, i, t)
          IN  result.message = "Not enough money." => SameHoldings(result.s, Session)
    /\ \A i \in 1..Len(rockets) : \A s \in RouteStepSessions(i) :
          LET result == handleSellRouteAutomation(s, i)
          IN  LackedFunds(s, i, result) => SameHoldings(result.s, s)

\* the colony that is the origin of the trade route of rocket i, or 0
OriginColony(i) == getColonyById(Session, rockets[i].sellRouteOriginId)

-----------------------------------------------------------------------------
(* Exploration *)

\* every check of startExploration passes for rocket i and the target type
ExplorationChecksPass(s, i, targetType) ==
    LET rocket == s.rockets[i]
        quote == getExplorationQuote(s, rocket, targetType)
        o == FindColonyAt(s, rocket.locationId.uuid)
    IN  /\ rocket.destinationId = NoLocation
        /\ \A m \in 1..Len(s.missions) : s.missions[m].rocketId # rocket.id
        /\ \A c \in 1..Len(s.colonies) : s.colonies[c].locationId.type # targetType
        /\ quote.found
        /\ o # 0
        /\ QuantityOf(s.colonies[o].items, FUEL) >= quote.fuelUnits
        /\ s.credits >= quote.priceCredits

\* C8: startExploration deducts only after all checks pass: when it returns ok = false
\* the treasury, the origin's fuel, the rocket and the missions are unchanged; when it
\* returns ok = true the treasury has dropped by the quoted price, the origin's fuel by
\* the quoted fuel, the rocket travels to the target and exactly one mission was added
C8_ExplorationAllOrNothing ==
    \A i \in 1..Len(rockets), t \in LocationType :
        LET result == startExploration(Session, i, t)
            quote == getExplorationQuote(Session, rockets[i], t)
            o == FindColonyAt(Session, rockets[i].locationId.uuid)
        IN  /\ result.ok <=> ExplorationChecksPass(Session, i, t)
            /\ ~result.ok => result.s = Session
            /\ result.ok =>
                  /\ result.s.credits = credits - quote.priceCredits
                  /\ QuantityOf(result.s.colonies[o].items, FUEL)
                        = QuantityOf(colonies[o].items, FUEL) - quote.fuelUnits
                  /\ \A c \in 1..Len(colonies) :
                        c # o => result.s.colonies[c] = colonies[c]
                  /\ result.s.rockets[i].destinationId # NoLocation
                  /\ result.s.rockets[i].destinationId.type = t
                  /\ result.s.rockets[i].locationId = rockets[i].locationId
                  /\ \A j \in 1..Len(rockets) : j # i => result.s.rockets[j] = rockets[j]
                  /\ result.s.missions
                        = Append(explorationMissions,
                                 [rocketId |-> rockets[i].id, targetType |-> t])

\* an exploration is under way: the rocket travels to the target of its mission, and
\* the treasury and the origin's fuel have paid for it
C8_Witness ==
    /\ Len(explorationMissions) = 1
    /\ credits = 0
    /\ \E i \in 1..Len(rockets) :
          /\ rockets[i].id = explorationMissions[1].rocketId
          /\ rockets[i].destinationId.type = explorationMissions[1].targetType
          /\ FindColonyAt(Session, rockets[i].locationId.uuid) # 0
          /\ QuantityOf(colonies[FindColonyAt(Session, rockets[i].locationId.uuid)].items,
                        FUEL) = 0

-----------------------------------------------------------------------------
(* Progress: the rocket update keeps being called with time elapsed *)

\* a call of updateRockets after a positive time
Tick == \E d \in Deltas \ {0} : UpdateRockets(d)

\* GameManager.tick runs on a timer, every 30th call updates the rockets
SpecLive == Spec /\ WF_vars(Tick)

MaxRockets == 2
Targets == {MOON, MARS, SPACE_STATION}

\* rocket r is on an exploration mission to the target type
OnMission(r, t) ==
    \E m \in 1..Len(explorationMissions) :
        explorationMissions[m] = [rocketId |-> r, targetType |-> t]

\* the exploration of rocket r has ended as intended
Settled(r, t) ==
    /\ \A m \in 1..Len(explorationMissions) : explorationMissions[m].rocketId # r
    /\ \E c \in 1..Len(colonies) : colonies[c].locationId.type = t
    /\ \E i \in 1..Len(rockets) :
          /\ rockets[i].id = r
          /\ rockets[i].destinationId = NoLocation
          /\ rockets[i].locationId.type = t

\* C9: after startExploration succeeded for a rocket and a target type, eventually
\* the rocket is docked at the target, a colony exists at the target type and the
\* mission is removed
C9_ExplorationSettles ==
    \A r \in 1..MaxRockets, t \in Targets : OnMission(r, t) ~> Settled(r, t)

-----------------------------------------------------------------------------
(* Saving and loading *)

\* a trading session whose Earth HQ was upgraded to the colony level and whose rocket
\* lab was upgraded to the module level
UpgradedSession(colonyLevel, moduleLevel) ==
    [TraderSession(Qty(34)) EXCEPT
        !.colonies[1].level = colonyLevel,
        !.colonies[1].colonyModules =
            <<ProductionModule(FOOD, 3),
              [InfrastructureModule(ROCKET_LAB, 1) EXCEPT !.level = moduleLevel]>>]

\* colony levels up to Colony.MAX_LEVEL, module levels up to InfrastructureModule.MAX_LEVEL
RoundSessions ==
    {UpgradedSession(colonyLevel, moduleLevel) :
        colonyLevel \in {1, DEFAULT_MAX_LEVEL, DEFAULT_MAX_LEVEL + 1, COLONY_MAX_LEVEL},
        moduleLevel \in {1, INFRASTRUCTURE_MAX_LEVEL}}

InitRound == InitFrom(RoundSessions)

NextRound ==
    \/ SaveGame
    \/ LoadGame
    \/ \E d \in Deltas : UpdateRockets(d)
    \/ \E i \in 1..Len(rockets), t \in LocationType : OrderRocketTravel(i, t)
    \/ \E i \in 1..Len(rockets) : StartSellRoute(i)
    \/ \E i \in 1..Len(rockets) : StopSellRoute(i)

SpecRound == InitRound /\ [][NextRound]_vars

\* C10: GameSession.fromData(toData(s)) is equivalent to s: treasury, colonies with
\* their levels (up to 1499), modules with theirs (up to 499), inventories, rockets
\* with their travel and trade-route state, sol counters and missions
C10_RoundTrip == fromData(toData(Snapshot)) = Snapshot

-----------------------------------------------------------------------------
(* The StorageHolder operations, called with any good and any amount *)

\* a new session with one rocket docked at the Earth HQ
StoreSession == [NewSession EXCEPT !.rockets = <<DockedRocket(1, EarthHQLocation)>>]

StoreGoods == {FOOD, FUEL}

\* an amount far larger than any quantity held
HugeAmount == Pow2(SignificandBits) + Qty(45) + 6

\* nothing, 45.625 units, 140 units (more than the Earth HQ holds at level 1), and a
\* huge amount
StoreAmounts == {0, Qty(45) + 5, Qty(140), HugeAmount}

\* the cargo a rocket is handed: 140 units (it holds 144 at level 1)
CargoAmounts == {Qty(140)}

InitStore == InitFrom({StoreSession})

ColonyAddItem(c, good, quantity) ==
    /\ colonies' = [colonies EXCEPT ![c].items =
                       addItemPosition(@, ColonyCapacity(colonies[c]), good, quantity).items]
    /\ UNCHANGED <<credits, rockets, explorationMissions, totalSolsPassed,
                   currentSol, currentSolProgress, tickCounter, saved, hist, clock>>

ColonyReduceItem(c, good, amount) ==
    /\ colonies' = [colonies EXCEPT ![c].items = reduceItemQuantity(@, good, amount).items]
    /\ UNCHANGED <<credits, rockets, explorationMissions, totalSolsPassed,
                   currentSol, currentSolProgress, tickCounter, saved, hist, clock>>

ColonyRemoveItem(c, good) ==
    /\ colonies' = [colonies EXCEPT ![c].items = removeItemPosition(@, good)]
    /\ UNCHANGED <<credits, rockets, explorationMissions, totalSolsPassed,
                   currentSol, currentSolProgress, tickCounter, saved, hist, clock>>

RocketAddItem(i, good, quantity) ==
    /\ rockets' = [rockets EXCEPT ![i].items =
                      addItemPosition(@, RocketCapacity(rockets[i]), good, quantity).items]
    /\ UNCHANGED <<credits, colonies, explorationMissions, totalSolsPassed,
                   currentSol, currentSolProgress, tickCounter, saved, hist, clock>>

RocketReduceItem(i, good, amount) ==
    /\ rockets' = [rockets EXCEPT ![i].items = reduceItemQuantity(@, good, amount).items]
    /\ UNCHANGED <<credits, colonies, explorationMissions, totalSolsPassed,
                   currentSol, currentSolProgress, tickCounter, saved, hist, clock>>

RocketRemoveItem(i, good) ==
    /\ rockets' = [rockets EXCEPT ![i].items = removeItemPosition(@, good)]
    /\ UNCHANGED <<credits, colonies, explorationMissions, totalSolsPassed,
                   currentSol, currentSolProgress, tickCounter, saved, hist, clock>>

NextStore ==
    \/ \E c \in 1..Len(colonies), g \in StoreGoods, q \in StoreAmounts : ColonyAddItem(c, g, q)
    \/ \E c \in 1..Len(colonies), g \in StoreGoods, q \in StoreAmounts : ColonyReduceItem(c, g, q)
    \/ \E c \in 1..Len(colonies), g \in StoreGoods : ColonyRemoveItem(c, g)
    \/ \E i \in 1..Len(rockets), g \in StoreGoods, q \in CargoAmounts : RocketAddItem(i, g, q)
    \/ \E i \in 1..Len(rockets), g \in StoreGoods, q \in CargoAmounts : RocketReduceItem(i, g, q)
    \/ \E i \in 1..Len(rockets), g \in StoreGoods : RocketRemoveItem(i, g)

SpecStore == InitStore /\ [][NextStore]_vars

\* the item list and the capacity of every storage holder of the session
Holders ==
    {[items |-> colonies[c].items, capacity |-> ColonyCapacity(colonies[c])] :
        c \in 1..Len(colonies)}
    \cup {[items |-> rockets[i].items, capacity |-> RocketCapacity(rockets[i])] :
        i \in 1..Len(rockets)}

\* no two positions of the list hold the same good
OnePositionPerGood(items) ==
    \A j, k \in 1..Len(items) : items[j].good = items[k].good => j = k

\* C11: addItemPosition(good, qty) succeeds exactly when getTotalQuantity() + qty <=
\* getCapacity(); on success the quantity is merged into the position of that good, or a
\* new position is appended when there is none, so that no good has two positions; on
\* failure the item list is unchanged.  A level 1 Earth colony has capacity 138, and 140
\* units do not go into its empty storage
C11_AddAllOrNothing ==
    /\ \A h \in Holders :
          /\ OnePositionPerGood(h.items)
          /\ \A g \in StoreGoods, q \in StoreAmounts :
                LET result == addItemPosition(h.items, h.capacity, g, q)
                    k == FindItem(h.items, g)
                IN  /\ result.ok <=> getTotalQuantity(h.items) + q <= h.capacity
                    /\ (result.ok /\ k # 0) =>
                          /\ Len(result.items) = Len(h.items)
                          /\ result.items[k] = ItemPosition(g, h.items[k].quantity + q)
                          /\ \A j \in 1..Len(h.items) : j # k => result.items[j] = h.items[j]
                    /\ (result.ok /\ k = 0) =>
                          result.items = h.items \o <<ItemPosition(g, q)>>
                    /\ ~result.ok => result.items = h.items
                    /\ OnePositionPerGood(result.items)
    /\ LET hq == EarthHQ(1, <<>>, <<>>)
       IN  /\ ColonyCapacity(hq) = Qty(138)
           /\ addItemPosition(hq.items, ColonyCapacity(hq), FOOD, Qty(140))
                 = [ok |-> FALSE, items |-> <<>>]

\* two deposits of 45.625 food were merged into the one food position of the Earth HQ,
\* next to a fuel position
C11_Witness ==
    /\ Len(colonies[1].items) = 2
    /\ QuantityOf(colonies[1].items, FOOD) = 2 * (Qty(45) + 5)
    /\ FindItem(colonies[1].items, FUEL) # 0

\* C12: reduceItemQuantity(goodId, qty) returns true and decrements the position by qty
\* exactly when a position of the good holds at least qty; otherwise it returns false
\* and every position is unchanged; a position that reaches 0 stays in the list
C12_ReduceContract ==
    \A h \in Holders, g \in StoreGoods, a \in StoreAmounts :
        LET result == reduceItemQuantity(h.items, g, a)
            k == FindItem(h.items, g)
        IN  /\ result.ok <=> (k # 0 /\ h.items[k].quantity >= a)
            /\ result.ok => result.items = [h.items EXCEPT ![k].quantity = @ - a]
            /\ ~result.ok => result.items = h.items

-----------------------------------------------------------------------------
(* Travel completion *)

-----------------------------------------------------------------------------
(* Upgrades and module construction *)

\* the amount that stands for the upgrade cost of a level past the table (more than
\* 4.8 million credits); it is above every treasury but that of MagnateSession
BeyondTreasury == Credits(100000000)

\* an upgrade that costs the same at every level
flatUpgradeCost(level) == Credits(60)

\* LevelSystem.getUpgradeCost, in eighths of a credit
getUpgradeCost(level) ==
    IF level <= Len(UpgradeCostTable) THEN Credits(UpgradeCostTable[level])
    ELSE BeyondTreasury

\* an addition that does not look at the slots
addToAnyColony(colony, module) ==
    [ok |-> TRUE, colony |-> [colony EXCEPT !.colonyModules = Append(@, module)]]

\* Colony.addColonyModule
addColonyModule(colony, module) ==
    IF Len(colony.colonyModules) >= getCompanyModulesAllowed(colony.level)
    THEN [ok |-> FALSE, colony |-> colony]
    ELSE [ok |-> TRUE,
          colony |-> [colony EXCEPT !.colonyModules = Append(@, module)]]

\* the price the build-module view puts on a module: 50 * 5^(modules built), five times
\* that for an infrastructure module
ModuleCost(colony, module) ==
    LET baseModuleCost == Credits(50 * Pow(5, Len(colony.colonyModules)))
    IN  IF module.moduleType = INFRASTRUCTURE THEN baseModuleCost * 5 ELSE baseModuleCost

\* the view offers its cards only while the colony has a free slot
ShowsModuleCards(colony) ==
    Len(colony.colonyModules) < getCompanyModulesAllowed(colony.level)

\* the onBuildModule handler
onBuildModule(s, c, module, cost) ==
    LET paid == deductMoney(s, cost)
    IN  IF paid.ok
        THEN [paid.s EXCEPT !.colonies[c] = addColonyModule(@, module).colony]
        ELSE s

\* the onUpgrade handlers for a colony, a rocket and a module
onUpgradeColony(s, c) ==
    LET paid == deductMoney(s, getUpgradeCost(s.colonies[c].level))
    IN  IF paid.ok
        THEN [paid.s EXCEPT !.colonies[c].level = IncrementLevel(@, COLONY_MAX_LEVEL)]
        ELSE s

onUpgradeRocket(s, i) ==
    LET paid == deductMoney(s, getUpgradeCost(s.rockets[i].level))
    IN  IF paid.ok
        THEN [paid.s EXCEPT !.rockets[i].level = IncrementLevel(@, DEFAULT_MAX_LEVEL)]
        ELSE s

\* the max level of a module of the kind
ModuleMaxLevel(module) ==
    IF module.moduleType = INFRASTRUCTURE THEN INFRASTRUCTURE_MAX_LEVEL
    ELSE DEFAULT_MAX_LEVEL

onUpgradeModule(s, c, m) ==
    LET module == s.colonies[c].colonyModules[m]
        paid == deductMoney(s, getUpgradeCost(module.level))
    IN  IF paid.ok
        THEN [paid.s EXCEPT !.colonies[c].colonyModules[m].level =
                 IncrementLevel(@, ModuleMaxLevel(module))]
        ELSE s

\* the Earth HQ one level below its second tier of module slots, all three slots used,
\* and the treasury covers the upgrade and a fourth module
BuilderSession ==
    [credits |-> Credits(6600),
     colonies |-> <<EarthHQ(9, <<ProductionModule(FOOD, 20),
                                 InfrastructureModule(ROCKET_LAB, 20),
                                 ProductionModule(FUEL, 21)>>, <<>>)>>,
     rockets |-> <<>>, missions |-> <<>>]

\* the Earth HQ one level below its third tier of module slots, all six slots used
MetropolisSession ==
    [credits |-> Credits(1200000),
     colonies |-> <<EarthHQ(49, <<ProductionModule(FOOD, 55),
                                  InfrastructureModule(ROCKET_LAB, 55),
                                  ProductionModule(FUEL, 55),
                                  InfrastructureModule(STOREROOM, 55),
                                  ProductionModule(O2, 55),
                                  ProductionModule(COMPUTER, 55)>>, <<>>)>>,
     rockets |-> <<>>, missions |-> <<>>]

ModulesOnOffer == {InfrastructureModule(STOREROOM, 1), ProductionModule(FUEL, 1)}

InitBuild == InitFrom({BuilderSession, MetropolisSession})

\* a click on a card of the build-module view
BuildModule(c, module) ==
    /\ ShowsModuleCards(colonies[c])
    /\ Becomes(onBuildModule(Session, c, module, ModuleCost(colonies[c], module)))
    /\ UNCHANGED <<totalSolsPassed, currentSol, currentSolProgress, tickCounter, saved,
                     hist, clock>>

\* colony.addColonyModule(module), whatever the number of modules
AddColonyModule(c, module) ==
    /\ colonies' = [colonies EXCEPT ![c] = addColonyModule(@, module).colony]
    /\ UNCHANGED <<credits, rockets, explorationMissions, totalSolsPassed,
                   currentSol, currentSolProgress, tickCounter, saved, hist, clock>>

UpgradeColony(c) ==
    /\ Becomes(onUpgradeColony(Session, c))
    /\ UNCHANGED <<totalSolsPassed, currentSol, currentSolProgress, tickCounter, saved,
                     hist, clock>>

NextBuild ==
    \/ \E c \in 1..Len(colonies), module \in ModulesOnOffer : BuildModule(c, module)
    \/ \E c \in 1..Len(colonies), module \in ModulesOnOffer : AddColonyModule(c, module)
    \/ \E c \in 1..Len(colonies) : UpgradeColony(c)
    \/ SaveGame
    \/ LoadGame

SpecBuild == InitBuild /\ [][NextBuild]_vars

\* C14: every colony holds at most getCompanyModulesAllowed(level) modules (3 below
\* level 10, 6 below 50, 9 below 200, 12 below 999, else 15); addColonyModule on a
\* colony whose slots are all used returns false and leaves the modules as they are;
\* no build or upgrade breaks the bound
C14_ModulesWithinSlots ==
    /\ \A c \in 1..Len(colonies) :
          /\ Len(colonies[c].colonyModules) <= getCompanyModulesAllowed(colonies[c].level)
          /\ getCompanyModulesAllowed(colonies[c].level) =
                (IF colonies[c].level < 10 THEN 3
                 ELSE IF colonies[c].level < 50 THEN 6
                 ELSE IF colonies[c].level < 200 THEN 9
                 ELSE IF colonies[c].level < 999 THEN 12 ELSE 15)
          /\ \A module \in ModulesOnOffer :
                Len(colonies[c].colonyModules) >= getCompanyModulesAllowed(colonies[c].level)
                    => /\ ~addColonyModule(colonies[c], module).ok
                       /\ addColonyModule(colonies[c], module).colony = colonies[c]

\* a colony was upgraded into its next tier and every slot of the tier was filled
C14_Witness ==
    \E c \in 1..Len(colonies) :
        /\ colonies[c].level >= 10
        /\ Len(colonies[c].colonyModules) = 6
        /\ credits < Credits(6600)

-----------------------------------------------------------------------------
(* Levels *)

\* a young company: the treasury pays for a few upgrades
ApprenticeSession ==
    [credits |-> Credits(300),
     colonies |-> <<EarthHQ(1, <<ProductionModule(FOOD, 3),
                                 InfrastructureModule(ROCKET_LAB, 1)>>, <<>>)>>,
     rockets |-> <<DockedRocket(1, EarthHQLocation)>>, missions |-> <<>>]

\* every entity is two levels below the max level of its kind
VeteranSession ==
    [ApprenticeSession EXCEPT
        !.colonies[1].level = COLONY_MAX_LEVEL - 2,
        !.colonies[1].colonyModules[1].level = DEFAULT_MAX_LEVEL - 2,
        !.colonies[1].colonyModules[2].level = INFRASTRUCTURE_MAX_LEVEL - 2,
        !.rockets[1].level = DEFAULT_MAX_LEVEL - 2]

InitLevel == InitFrom({ApprenticeSession, VeteranSession})

UpgradeRocket(i) ==
    /\ Becomes(onUpgradeRocket(Session, i))
    /\ UNCHANGED <<totalSolsPassed, currentSol, currentSolProgress, tickCounter, saved,
                     hist, clock>>

UpgradeModule(c, m) ==
    /\ Becomes(onUpgradeModule(Session, c, m))
    /\ UNCHANGED <<totalSolsPassed, currentSol, currentSolProgress, tickCounter, saved,
                     hist, clock>>

\* incrementLevel() is called directly only this many levels below the max level
LevelsBelowMax == 2

\* colony.incrementLevel(), rocket.incrementLevel(), module.incrementLevel() near the
\* max level, where no treasury of the model pays the upgrade
IncrementColonyLevel(c) ==
    /\ COLONY_MAX_LEVEL - colonies[c].level <= LevelsBelowMax
    /\ colonies' = [colonies EXCEPT ![c].level = IncrementLevel(@, COLONY_MAX_LEVEL)]
    /\ UNCHANGED <<credits, rockets, explorationMissions, totalSolsPassed,
                   currentSol, currentSolProgress, tickCounter, saved, hist, clock>>

IncrementRocketLevel(i) ==
    /\ DEFAULT_MAX_LEVEL - rockets[i].level <= LevelsBelowMax
    /\ rockets' = [rockets EXCEPT ![i].level = IncrementLevel(@, DEFAULT_MAX_LEVEL)]
    /\ UNCHANGED <<credits, colonies, explorationMissions, totalSolsPassed,
                   currentSol, currentSolProgress, tickCounter, saved, hist, clock>>

IncrementModuleLevel(c, m) ==
    /\ ModuleMaxLevel(colonies[c].colonyModules[m]) - colonies[c].colonyModules[m].level
          <= LevelsBelowMax
    /\ colonies' = [colonies EXCEPT ![c].colonyModules[m].level =
                       IncrementLevel(@, ModuleMaxLevel(colonies[c].colonyModules[m]))]
    /\ UNCHANGED <<credits, rockets, explorationMissions, totalSolsPassed,
                   currentSol, currentSolProgress, tickCounter, saved, hist, clock>>

NextLevel ==
    \/ \E c \in 1..Len(colonies) : UpgradeColony(c)
    \/ \E i \in 1..Len(rockets) : UpgradeRocket(i)
    \/ \E c \in 1..Len(colonies) :
          \E m \in 1..Len(colonies[c].colonyModules) : UpgradeModule(c, m)
    \/ \E c \in 1..Len(colonies) : IncrementColonyLevel(c)
    \/ \E i \in 1..Len(rockets) : IncrementRocketLevel(i)
    \/ \E c \in 1..Len(colonies) :
          \E m \in 1..Len(colonies[c].colonyModules) : IncrementModuleLevel(c, m)
    \/ SaveGame
    \/ LoadGame

SpecLevel == InitLevel /\ [][NextLevel]_vars

\* the levels of a session are within 1..max level of each kind
LevelsWithinRange(s) ==
    /\ \A c \in 1..Len(s.colonies) :
          /\ s.colonies[c].level \in 1..COLONY_MAX_LEVEL
          /\ \A m \in 1..Len(s.colonies[c].colonyModules) :
                s.colonies[c].colonyModules[m].level
                    \in 1..ModuleMaxLevel(s.colonies[c].colonyModules[m])
    /\ \A i \in 1..Len(s.rockets) : s.rockets[i].level \in 1..DEFAULT_MAX_LEVEL

\* what incrementLevel is to do with a level
RaisedByOne(level, maxLevel) == IF level = maxLevel THEN level ELSE level + 1

\* C15: the level of every colony, rocket and module is within 1..max level of its kind
\* (999, 499 for infrastructure modules, 1499 for colonies), in the session and in the
\* session a reload would construct from the saved data; incrementLevel changes
\* nothing at the max level and raises the level by exactly 1 below it
C15_LevelsWithinRange ==
    /\ [](/\ LevelsWithinRange(Session)
          /\ saved # <<>> => LevelsWithinRange(fromData(saved[1])))
    /\ [][/\ \A c \in 1..Len(colonies) :
                /\ IncrementColonyLevel(c) =>
                      colonies'[c].level = RaisedByOne(colonies[c].level, COLONY_MAX_LEVEL)
                /\ \A m \in 1..Len(colonies[c].colonyModules) :
                      IncrementModuleLevel(c, m) =>
                          colonies'[c].colonyModules[m].level =
                              RaisedByOne(colonies[c].colonyModules[m].level,
                                          ModuleMaxLevel(colonies[c].colonyModules[m]))
          /\ \A i \in 1..Len(rockets) :
                IncrementRocketLevel(i) =>
                    rockets'[i].level = RaisedByOne(rockets[i].level, DEFAULT_MAX_LEVEL)]_vars

\* every entity has been raised to the max level of its kind and the session was saved
C15_Witness ==
    /\ saved # <<>>
    /\ colonies[1].level = COLONY_MAX_LEVEL
    /\ colonies[1].colonyModules[1].level = DEFAULT_MAX_LEVEL
    /\ colonies[1].colonyModules[2].level = INFRASTRUCTURE_MAX_LEVEL
    /\ rockets[1].level = DEFAULT_MAX_LEVEL

-----------------------------------------------------------------------------
(* Production at the sol boundary *)

GoodIds == 1..7

RECURSIVE DepositAsStated(_, _, _, _)
\* the items a colony is to hold after the production entries k..Len(list): each
\* entry adds its amount when it fits into the free room, else the free room
DepositAsStated(items, capacity, list, k) ==
    IF k > Len(list) THEN items
    ELSE LET freeRoom == capacity - SumQuantity(items)
             amount == Min(list[k].quantity, freeRoom)
         IN  DepositAsStated(ForceAddItem(items, list[k].good, amount), capacity, list, k + 1)

\* the production of the sol does not fit into the colony as a whole
Overflows(colony) ==
    SumQuantity(colony.items) + SumQuantity(ProductionList(colony, 1, <<>>))
        > ColonyCapacity(colony)

\* the station colony has produced food for 70 to 92 sols (3 eighths a sol) and
\* nothing was taken from it; the Earth HQ holds fuel
SolSession(sols) ==
    [credits |-> Credits(5000),
     colonies |-> <<EarthHQ(1, <<ProductionModule(FOOD, 3)>>,
                            <<ItemPosition(FUEL, Qty(50))>>),
                    StationColony(1, <<ItemPosition(FOOD, 3 * sols)>>)>>,
     rockets |-> <<>>, missions |-> <<>>]

InitSol == InitFrom({SolSession(sols) : sols \in 70..92})

NextSol ==
    \/ PassSol
    \/ SaveGame
    \/ LoadGame

SpecSol == InitSol /\ [][NextSol]_vars

\* C16: at a sol boundary every colony (that is within its capacity) receives of each
\* produced good quantityPerSol * colonyMultiplier, or the free room that is left when
\* the amount does not fit; after an overflow the storage is exactly full, the
\* capacity is never exceeded and no other good changes
C16_DepositFillsExactly ==
    [][PassSol =>
         \A c \in 1..Len(colonies) :
            LET colony == colonies[c]
                capacity == ColonyCapacity(colony)
                stated == DepositAsStated(colony.items, capacity,
                                          ProductionList(colony, 1, <<>>), 1)
            IN  SumQuantity(colony.items) <= capacity =>
                  /\ \A g \in GoodIds :
                        QuantityOf(colonies'[c].items, g) = QuantityOf(stated, g)
                  /\ SumQuantity(colonies'[c].items) <= capacity
                  /\ Overflows(colony) => SumQuantity(colonies'[c].items) = capacity]_vars

-----------------------------------------------------------------------------
(* The fuel bought at the start of a trade-route cycle *)

\* the fuel the colony rocket i is docked at lacks for the flight to Earth
OutboundShortfall(i) ==
    LET o == DockedColony(Session, i)
        connection == findSpaceConnection(colonies[o].locationId.type, EARTH)
    IN  Max(0, Qty(SpaceConnections[connection].fuelCost)
                 - QuantityOf(colonies[o].items, FUEL))

\* the Start Sell Route button of rocket i has sent the rocket off and fuel was lacking
StartedWithPurchase(i) ==
    /\ StartSellRoute(i)
    /\ rockets'[i].sellRouteState = TRAVELING_TO_EARTH
    /\ OutboundShortfall(i) > 0

\* C17 as stated: the fuel that is lacking at the start of a trade-route cycle is paid
\* at the market buy price of fuel, whatever the origin's location type
C17_Original ==
    [][\A i \in 1..Len(rockets) :
          StartedWithPurchase(i) =>
             credits - credits' = OutboundShortfall(i) * GoodsRegistry[FUEL].marketBuyPrice]_vars

\* C17: the fuel that is lacking at the start of a trade-route cycle is paid at the
\* market buy price of fuel at an Earth origin and at ten times that price at any
\* other origin
C17_ShortfallPaidTenfold ==
    [][\A i \in 1..Len(rockets) :
          StartedWithPurchase(i) =>
             credits - credits' =
                OutboundShortfall(i) * GoodsRegistry[FUEL].marketBuyPrice
                  * (IF colonies[DockedColony(Session, i)].locationId.type = EARTH
                     THEN 1 ELSE 10)]_vars

\* a rocket is on its way to Earth and the treasury has paid for fuel at its origin
C17_Witness ==
    /\ hist.rocket # 0
    /\ ~hist.fuelReady
    /\ rockets[hist.rocket].sellRouteState = TRAVELING_TO_EARTH
    /\ OriginColony(hist.rocket) # 0
    /\ colonies[OriginColony(hist.rocket)].locationId.type # EARTH
    /\ credits < hist.startCredits

-----------------------------------------------------------------------------
(* The routes of an exploration *)

\* C18: for a rocket docked at a colony and on no mission, an uncolonized target, the
\* fuel (twice the connection's fuel cost) and the funds, startExploration succeeds
\* whenever a connection joins the rocket's location type and the target type in
\* either direction, and it answers "No valid route to target." only when no
\* connection, direct or reverse, exists
C18_ExplorationRoutesBothWays ==
    \A i \in 1..Len(rockets), t \in LocationType :
        LET rocket == rockets[i]
            links == Links(rocket.locationId.type, t)
            o == DockedColony(Session, i)
            result == startExploration(Session, i, t)
            price == Credits(EXPLORATION_BASE_PRICE
                               * Pow(EXPLORATION_PRICE_BASE, Max(0, Len(colonies) - 1)))
        IN  /\ (/\ o # 0
                /\ FindMission(Session, rocket.id) = 0
                /\ FindColonyByType(Session, t) = 0
                /\ links # {}
                /\ \E k \in links :
                      QuantityOf(colonies[o].items, FUEL) >= Qty(SpaceConnections[k].fuelCost * 2)
                /\ credits >= price)
               => result.ok
            /\ (~result.ok /\ result.message = "No valid route to target.") => links = {}

-----------------------------------------------------------------------------
(* The tick of the game loop *)

\* a sol, in the quarters currentSolProgress is held in
SolQuarters == 4

\* what the clock can show at a tick, in quarters of a sol since lastSolPassed: the
\* sol has just begun, is half over, is over
SinceSol == {0, 2, SolQuarters + 1}

\* a tick that updates the rockets whatever the tick counter says
tickAlwaysUpdates(s, counter, progress, deltaMinutes, sinceSol) ==
    LET n == counter + 1
        s1 == updateRockets(s, deltaMinutes)
        solTurn == n % 10 = 0
        solOver == solTurn /\ sinceSol > SolQuarters
    IN  [s |-> IF solOver THEN passSol(s1) ELSE s1,
         solsPassed |-> IF solOver THEN 1 ELSE 0,
         currentSolProgress |-> IF solOver THEN 0 ELSE IF solTurn THEN sinceSol ELSE progress,
         tickCounter |-> IF n >= 300 THEN 0 ELSE n,
         stateChanged |-> n % 30 = 0 \/ solTurn]

\* GameManager.tick: the session, the sol progress and the tick counter afterwards and
\* the value returned; deltaMinutes is the time since the last rocket update, sinceSol
\* the time since lastSolPassed (updateColonies calls Colony.tick, which is empty)
tick(s, counter, progress, deltaMinutes, sinceSol) ==
    LET n == counter + 1
        s1 == IF n % 30 = 0 THEN updateRockets(s, deltaMinutes) ELSE s
        solTurn == n % 10 = 0
        solOver == solTurn /\ sinceSol > SolQuarters
    IN  [s |-> IF solOver THEN passSol(s1) ELSE s1,
         solsPassed |-> IF solOver THEN 1 ELSE 0,
         currentSolProgress |-> IF solOver THEN 0 ELSE IF solTurn THEN sinceSol ELSE progress,
         tickCounter |-> IF n >= 300 THEN 0 ELSE n,
         stateChanged |-> n % 30 = 0 \/ solTurn]

\* one call of gameManager.tick() by the game loop
GameTick(deltaMinutes, sinceSol) ==
    LET result == tick(Session, tickCounter, currentSolProgress, deltaMinutes, sinceSol)
    IN  /\ sinceSol > SolQuarters => totalSolsPassed < MaxSols
        /\ Becomes(result.s)
        /\ totalSolsPassed' = totalSolsPassed + result.solsPassed
        /\ currentSol' = currentSol + result.solsPassed
        /\ currentSolProgress' = result.currentSolProgress
        /\ tickCounter' = result.tickCounter
        /\ UNCHANGED <<saved, hist, clock>>

InitTick == InitFrom({NewSession, TraderSession(Qty(34))})

NextTick ==
    \/ \E d \in Deltas, q \in SinceSol : GameTick(d, q)
    \/ \E i \in 1..Len(rockets) : StartSellRoute(i)

SpecTick == InitTick /\ [][NextTick]_vars

\* C19: a call of tick() that returns false has modified no rocket, colony, treasury,
\* mission, sol counter or sol progress of the session
C19_FalseTickChangesNothing ==
    [][\A d \in Deltas, q \in SinceSol :
          (/\ GameTick(d, q)
           /\ ~tick(Session, tickCounter, currentSolProgress, d, q).stateChanged)
          => UNCHANGED <<credits, colonies, rockets, explorationMissions, totalSolsPassed,
                         currentSol, currentSolProgress>>]_vars

\* tick() has just returned false while a rocket is under way, after ticks that moved
\* the rockets and the sol
C19_Witness ==
    /\ tickCounter = 31
    /\ totalSolsPassed > 0
    /\ currentSolProgress > 0
    /\ \E i \in 1..Len(rockets) :
          /\ rockets[i].destinationId # NoLocation
          /\ rockets[i].sellRouteState = TRAVELING_TO_ORIGIN

-----------------------------------------------------------------------------
(* The price of an upgrade *)

\* the levels whose upgrade is bought
MaxCostLevel == 59

\* the Earth HQ at the level, the treasury holds the price of its upgrade and 10 credits
CostSession(level) ==
    [credits |-> getUpgradeCost(level) + Credits(10),
     colonies |-> <<[EarthHQ(1, <<ProductionModule(FOOD, 3)>>, <<>>) EXCEPT !.level = level]>>,
     rockets |-> <<>>, missions |-> <<>>]

InitCost == InitFrom({CostSession(level) : level \in 1..MaxCostLevel})

NextCost == \E c \in 1..Len(colonies) : UpgradeColony(c)

SpecCost == InitCost /\ [][NextCost]_vars

RECURSIVE TimesLimbs(_, _, _)
\* a natural number in limbs of four decimal digits, lowest first, times m plus carry
TimesLimbs(limbs, m, carry) ==
    IF limbs = <<>>
    THEN IF carry = 0 THEN <<>>
         ELSE <<carry % 10000>> \o TimesLimbs(<<>>, m, carry \div 10000)
    ELSE LET v == Head(limbs) * m + carry
         IN  <<v % 10000>> \o TimesLimbs(Tail(limbs), m, v \div 10000)

RECURSIVE PowerOfTwelve(_)
\* 12^e in limbs
PowerOfTwelve(e) ==
    IF e = 0 THEN <<1>>
    ELSE IF e >= 4
    THEN Bind(PowerOfTwelve(e - 4), LAMBDA limbs : TimesLimbs(limbs, 12 * 12 * 12 * 12, 0))
    ELSE Bind(PowerOfTwelve(e - 1), LAMBDA limbs : TimesLimbs(limbs, 12, 0))

RECURSIVE LimbsValue(_)
LimbsValue(limbs) ==
    IF limbs = <<>> THEN 0 ELSE Head(limbs) + 10000 * LimbsValue(Tail(limbs))

\* floor(50 * 1.2^level) = floor(50 * 12^level / 10^level), in credits
FloorOfFiftyTimesPow(level) ==
    LET product == TimesLimbs(PowerOfTwelve(level), 50, 0)
        whole == SubSeq(product, (level \div 4) + 1, Len(product))
        rest == level % 4
    IN  (Head(whole) \div Pow(10, rest))
          + Pow(10, 4 - rest) * LimbsValue(Tail(whole))

\* C20: the upgrade cost is floor(50 * 1.2^level), it is 60 at level 1 and 309 at level
\* 10, and it is strictly increasing in the level; an upgrade takes exactly this
\* amount from the treasury
C20_UpgradeCostIncreases ==
    /\ [](/\ getUpgradeCost(1) = Credits(60)
          /\ getUpgradeCost(10) = Credits(309)
          /\ \A c \in 1..Len(colonies) :
                LET level == colonies[c].level
                IN  /\ getUpgradeCost(level) = Credits(FloorOfFiftyTimesPow(level))
                    /\ \A lower \in 1..(level - 1) :
                          getUpgradeCost(lower) < getUpgradeCost(level))
    /\ [][\A c \in 1..Len(colonies) :
             (UpgradeColony(c) /\ colonies'[c].level # colonies[c].level)
                => credits - credits' = Credits(FloorOfFiftyTimesPow(colonies[c].level))]_vars

\* the upgrade of a level 10 colony has been bought for 309 credits
C20_Witness ==
    /\ colonies[1].level = 11
    /\ credits = Credits(10)

-----------------------------------------------------------------------------
(* The trade-route flag and the trade-route state *)

\* C21: a rocket whose sellRoute is false has sellRouteState Idle; a state other than
\* Idle occurs only while sellRoute is true, also after a failed step has disabled
\* the route or the user has stopped it
C21_StateIdleWithoutRoute ==
    \A i \in 1..Len(rockets) :
        ~rockets[i].sellRoute => rockets[i].sellRouteState = IDLE

-----------------------------------------------------------------------------
(* Rejected travel orders and rocket builds *)

\* startTravel of rocket i to the type lacks a prerequisite or the fuel
TravelLacksSomething(s, i, targetType) ==
    LET t == FindColonyByType(s, targetType)
        o == FindColonyAt(s, s.rockets[i].locationId.uuid)
        connection == findSpaceConnection(s.rockets[i].locationId.type, targetType)
    IN  \/ t = 0
        \/ o = 0
        \/ connection = 0
        \/ QuantityOf(s.colonies[o].items, FUEL) < Qty(SpaceConnections[connection].fuelCost)

\* the rockets docked at or bound to the location of colony c
RocketsAt(s, c) ==
    Cardinality({i \in 1..Len(s.rockets) :
                    s.rockets[i].locationId.uuid = s.colonies[c].locationId.uuid})

\* the build-rocket action at colony c lacks the Rocket Lab, a free place or a resource
BuildLacksSomething(s, c) ==
    LET colony == s.colonies[c]
        lab == FindRocketLab(colony)
        costs == RocketCosts(RocketsAt(s, c))
    IN  \/ lab = 0
        \/ RocketsAt(s, c) >= RocketLabBenefit(colony.colonyModules[lab].level)
        \/ \E k \in 1..Len(costs) :
              QuantityOf(colony.items, costs[k].good) < costs[k].quantity

\* C22: startTravel with no target colony, no origin colony, no route or too little
\* fuel, and the build-rocket action with no Rocket Lab, a reached rocket limit or a
\* resource cost that is not covered, are rejected and leave the inventories, the
\* treasury, the rocket list and every rocket as they were
C22_RejectionDeductsNothing ==
    /\ \A i \in 1..Len(rockets), t \in LocationType :
          TravelLacksSomething(Session, i, t) =>
             startTravel(Session, i, t) = [s |-> Session, ok |-> FALSE]
    /\ \A c \in 1..Len(colonies) :
          BuildLacksSomething(Session, c) =>
             onBuildRocket(Session, c) = [s |-> Session, ok |-> FALSE]

\* a rocket was built and the Rocket Lab has no place for another one, and a docked
\* rocket has no colony to fly to
C22_Witness ==
    /\ \E c \in 1..Len(colonies) :
          /\ FindRocketLab(colonies[c]) # 0
          /\ RocketsAt(Session, c) > 0
          /\ BuildLacksSomething(Session, c)
    /\ \E i \in 1..Len(rockets), t \in LocationType :
          /\ DockedColony(Session, i) # 0
          /\ TravelLacksSomething(Session, i, t)

-----------------------------------------------------------------------------
(* The treasury *)

\* handleMarketBuy(good, good.marketBuyPrice, quantity) of the market view
handleMarketBuy(s, good, quantity) ==
    LET totalCost == Credits(GoodsRegistry[good].marketBuyPrice * quantity)
        paid == deductMoney(s, totalCost)
        earthHQ == FindColonyByType(s, EARTH)
    IN  IF ~paid.ok THEN s
        ELSE IF earthHQ = 0 THEN addMoney(paid.s, totalCost)
        ELSE LET added == addItemPosition(s.colonies[earthHQ].items,
                                          ColonyCapacity(s.colonies[earthHQ]),
                                          good, Qty(quantity))
             IN  IF ~added.ok THEN addMoney(paid.s, totalCost)
                 ELSE [paid.s EXCEPT !.colonies[earthHQ].items = added.items]

\* the goods bought in the runs and the quantity of the Buy 10 button
MarketGoods == {FUEL, COMPUTER}
MarketQuantities == {10}

\* the runs buy a good while the Earth HQ holds less than MaxStock units of it, and
\* upgrade an entity while it is below level MaxUpgradeLevel
MaxStock == 20
MaxUpgradeLevel == 2

MarketBuy(good, quantity) ==
    /\ \A c \in 1..Len(colonies) :
          colonies[c].locationId.type = EARTH =>
             QuantityOf(colonies[c].items, good) < Qty(MaxStock)
    /\ Becomes(handleMarketBuy(Session, good, quantity))
    /\ UNCHANGED <<totalSolsPassed, currentSol, currentSolProgress, tickCounter, saved,
                     hist, clock>>

\* the id of the Solar Panel in the goods registry
SOLAR_PANEL == 6

\* the sols the station colony of PanelStationSession has produced
StationSols == 161

RECURSIVE SolsLater(_, _)
\* the colony after n more calls of endOfSolUpdate
SolsLater(colony, n) ==
    IF n = 0 THEN colony
    ELSE IF n = 1 THEN endOfSolUpdate(colony)
    ELSE Bind(SolsLater(colony, n \div 2), LAMBDA half : SolsLater(half, n - n \div 2))

\* a level 1 station colony on which a Solar Panel module and then a Food module were
\* built and which has produced for StationSols sols since, nothing taken from it; a
\* rocket is docked there and the treasury pays the fuel of the flight to Earth
PanelStationSession ==
    [credits |-> Credits(500100),
     colonies |-> <<EarthHQ(1, <<ProductionModule(FOOD, 3)>>, <<>>),
                    SolsLater(Colony(2, StationLocation, 1,
                                     <<ProductionModule(SOLAR_PANEL, 1),
                                       ProductionModule(FOOD, 1)>>), StationSols)>>,
     rockets |-> <<DockedRocket(1, StationLocation)>>, missions |-> <<>>]

\* the session after the Start Sell Route button was pressed for the rocket and the
\* route has bought its fuel: the rocket is on its way to Earth with the colony's goods
PanelRouteSession == onStartSellRoute(PanelStationSession, 1).s

InitMoney == InitFrom({NewSession, ApprenticeSession, ExplorerSession,
                       PanelRouteSession})

NextMoney ==
    \/ \E c \in 1..Len(colonies) :
          colonies[c].level < MaxUpgradeLevel /\ UpgradeColony(c)
    \/ \E i \in 1..Len(rockets) :
          rockets[i].level < MaxUpgradeLevel /\ UpgradeRocket(i)
    \/ \E c \in 1..Len(colonies) :
          \E m \in 1..Len(colonies[c].colonyModules) :
              colonies[c].colonyModules[m].level < MaxUpgradeLevel /\ UpgradeModule(c, m)
    \/ \E c \in 1..Len(colonies), module \in ModulesOnOffer : BuildModule(c, module)
    \/ \E good \in MarketGoods, quantity \in MarketQuantities : MarketBuy(good, quantity)
    \/ \E i \in 1..Len(rockets), t \in LocationType : StartExploration(i, t)
    \/ \E i \in 1..Len(rockets) : StartSellRoute(i)
    \/ \E d \in Deltas : UpdateRockets(d)
    \/ PassSol

SpecMoney == InitMoney /\ [][NextMoney]_vars

\* C23: in every reachable state the treasury is at least 0, whatever upgrades,
\* module builds, market purchases, exploration starts, trade-route fuel purchases
\* and ticks have happened
C23_TreasuryNeverNegative == credits >= 0

-----------------------------------------------------------------------------
(* Upgrades and the treasury *)

\* every entity is one level below the max level of its kind, and the treasury covers
\* two upgrades at such a level
MagnateSession ==
    [ApprenticeSession EXCEPT
        !.credits = 2 * BeyondTreasury,
        !.colonies[1].level = COLONY_MAX_LEVEL - 1,
        !.colonies[1].colonyModules[1].level = DEFAULT_MAX_LEVEL - 1,
        !.colonies[1].colonyModules[2].level = INFRASTRUCTURE_MAX_LEVEL - 1,
        !.rockets[1].level = DEFAULT_MAX_LEVEL - 1]

InitUpgrade == InitFrom({NewSession, ApprenticeSession, MagnateSession})

NextUpgrade ==
    \/ \E c \in 1..Len(colonies) : UpgradeColony(c)
    \/ \E i \in 1..Len(rockets) : UpgradeRocket(i)
    \/ \E c \in 1..Len(colonies) :
          \E m \in 1..Len(colonies[c].colonyModules) : UpgradeModule(c, m)

SpecUpgrade == InitUpgrade /\ [][NextUpgrade]_vars

\* the step takes the upgrade cost of the level from the treasury exactly when it raises
\* the level by one, and at the max level it changes neither
PaysIffRaised(level, levelAfter, maxLevel) ==
    /\ (credits' = credits - getUpgradeCost(level)) <=> (levelAfter = level + 1)
    /\ level >= maxLevel => (levelAfter = level /\ credits' = credits)

\* C24: an upgrade action on a rocket, a colony or a module takes upgradeCost(level)
\* from the treasury if and only if it raises the level of the entity by exactly 1; on
\* an entity at its max level it changes neither the level nor the treasury
C24_UpgradePaysIffRaised ==
    [][/\ \A c \in 1..Len(colonies) :
             /\ UpgradeColony(c) =>
                   PaysIffRaised(colonies[c].level, colonies'[c].level, COLONY_MAX_LEVEL)
             /\ \A m \in 1..Len(colonies[c].colonyModules) :
                   UpgradeModule(c, m) =>
                       PaysIffRaised(colonies[c].colonyModules[m].level,
                                     colonies'[c].colonyModules[m].level,
                                     ModuleMaxLevel(colonies[c].colonyModules[m]))
       /\ \A i \in 1..Len(rockets) :
             UpgradeRocket(i) =>
                 PaysIffRaised(rockets[i].level, rockets'[i].level, DEFAULT_MAX_LEVEL)]_vars

\* the same for the entities below their max level only
C24_BelowMaxOnly ==
    [][/\ \A c \in 1..Len(colonies) :
             /\ (colonies[c].level < COLONY_MAX_LEVEL /\ UpgradeColony(c)) =>
                   PaysIffRaised(colonies[c].level, colonies'[c].level, COLONY_MAX_LEVEL)
             /\ \A m \in 1..Len(colonies[c].colonyModules) :
                   (/\ colonies[c].colonyModules[m].level
                          < ModuleMaxLevel(colonies[c].colonyModules[m])
                    /\ UpgradeModule(c, m)) =>
                       PaysIffRaised(colonies[c].colonyModules[m].level,
                                     colonies'[c].colonyModules[m].level,
                                     ModuleMaxLevel(colonies[c].colonyModules[m]))
       /\ \A i \in 1..Len(rockets) :
             (rockets[i].level < DEFAULT_MAX_LEVEL /\ UpgradeRocket(i)) =>
                 PaysIffRaised(rockets[i].level, rockets'[i].level, DEFAULT_MAX_LEVEL)]_vars

-----------------------------------------------------------------------------
(* Module construction and the treasury *)

\* what the onBuildModule handler returns
onBuildModuleReturns(s, cost) == deductMoney(s, cost).ok

\* the onBuildModule handler called for colony c with the price of the view, whatever
\* the number of modules of the colony
OnBuildModule(c, module) ==
    /\ Becomes(onBuildModule(Session, c, module, ModuleCost(colonies[c], module)))
    /\ UNCHANGED <<totalSolsPassed, currentSol, currentSolProgress, tickCounter, saved,
                     hist, clock>>

InitHandler == InitFrom({NewSession, ExplorerSession, BuilderSession, MetropolisSession})

NextHandler ==
    \/ \E c \in 1..Len(colonies), module \in ModulesOnOffer : OnBuildModule(c, module)
    \/ \E c \in 1..Len(colonies) : UpgradeColony(c)

SpecHandler == InitHandler /\ [][NextHandler]_vars

\* the step takes the price from the treasury exactly when it adds the module to colony
\* c, and on a colony without a free slot it changes neither and reports failure
PaysIffBuilt(c, module) ==
    LET cost == ModuleCost(colonies[c], module)
        modules == colonies[c].colonyModules
    IN  /\ (credits' = credits - cost)
              <=> (colonies'[c].colonyModules = Append(modules, module))
        /\ Len(modules) >= getCompanyModulesAllowed(colonies[c].level) =>
              /\ credits' = credits
              /\ colonies'[c].colonyModules = modules
              /\ ~onBuildModuleReturns(Session, cost)

\* C25: the build-module action takes the module cost from the treasury if and only if
\* the module is added to the colony; on a colony whose slots are all used it changes
\* neither the treasury nor the modules and reports failure
C25_BuildPaysIffAdded ==
    [][\A c \in 1..Len(colonies), module \in ModulesOnOffer :
           OnBuildModule(c, module) => PaysIffBuilt(c, module)]_vars

\* the same for the colonies that have a free slot only
C25_FreeSlotOnly ==
    [][\A c \in 1..Len(colonies), module \in ModulesOnOffer :
           (ShowsModuleCards(colonies[c]) /\ OnBuildModule(c, module))
               => PaysIffBuilt(c, module)]_vars

-----------------------------------------------------------------------------
(* Exploration missions and trade routes *)

\* the rockets a mission names
MissionRockets(m) ==
    {i \in 1..Len(rockets) : rockets[i].id = explorationMissions[m].rocketId}

\* every mission names a rocket that is flying to a location of the mission's target
\* type, and no rocket has two missions
MissionsFollowRockets ==
    /\ \A m \in 1..Len(explorationMissions) :
          /\ MissionRockets(m) # {}
          /\ \A i \in MissionRockets(m) :
                /\ rockets[i].destinationId # NoLocation
                /\ rockets[i].destinationId.type = explorationMissions[m].targetType
    /\ \A m, n \in 1..Len(explorationMissions) :
          explorationMissions[m].rocketId = explorationMissions[n].rocketId => m = n

\* C26: every exploration mission names a rocket that is travelling toward a location
\* of the mission's target type, there is at most one mission per rocket, and that
\* rocket has sellRoute = false: no rocket is bound to a mission and run by the
\* trade-route automation at the same time
C26_MissionRocketsOffRoute ==
    /\ MissionsFollowRockets
    /\ \A m \in 1..Len(explorationMissions) :
          \A i \in MissionRockets(m) : ~rockets[i].sellRoute

-----------------------------------------------------------------------------
(* The clock of the game loop *)

\* the latest time the clock shows, in quarter minutes
MaxClock == 4

\* the time the clock advances between two ticks, in quarter minutes
Elapsed == {0, 1}

\* GameManager.tick when Date.now() returns now: what tick does with the time since
\* the last rocket update and since lastSolPassed, and the time stamps afterwards;
\* the sol progress is rounded down to the quarter of a sol
tickAt(s, counter, progress, c, now) ==
    LET n == counter + 1
        solTurn == n % 10 = 0
        lastSolPassed == IF c.lastSolPassed = 0
                         THEN now - (progress * minutesPerSol) \div SolQuarters
                         ELSE c.lastSolPassed
        solOver == now - lastSolPassed > minutesPerSol
        sinceSol == IF solOver THEN SolQuarters + 1
                    ELSE ((now - lastSolPassed) * SolQuarters) \div minutesPerSol
    IN  [result |-> tick(s, counter, progress, now - c.lastRocketUpdateTime, sinceSol),
         clock |-> [c EXCEPT
                      !.now = now,
                      !.lastRocketUpdateTime = IF n % 30 = 0 THEN now ELSE @,
                      !.lastSolPassed = IF ~solTurn THEN @
                                        ELSE IF solOver THEN now ELSE lastSolPassed]]

\* one call of gameManager.tick() by the game loop, elapsed after the last one and
\* not after latest
TickWithin(elapsed, latest) ==
    LET now == clock.now + elapsed
        at == tickAt(Session, tickCounter, currentSolProgress, clock, now)
    IN  /\ now <= latest
        /\ Becomes(at.result.s)
        /\ totalSolsPassed' = totalSolsPassed + at.result.solsPassed
        /\ currentSol' = currentSol + at.result.solsPassed
        /\ currentSolProgress' = at.result.currentSolProgress
        /\ tickCounter' = at.result.tickCounter
        /\ clock' = at.clock
        /\ UNCHANGED <<saved, hist>>

ClockTick(elapsed) == TickWithin(elapsed, MaxClock)

\* the clock after rocket i has been sent off at the time of the clock
Departs(i) ==
    [clock EXCEPT !.departedAt = [j \in 1..Len(rockets) |->
                                     IF j = i THEN clock.now
                                     ELSE IF j \in DOMAIN @ THEN @[j] ELSE 0]]

\* the player sends a rocket to a colony: GameManager.startTravel
OrderTravel(i, targetType) ==
    LET result == startTravel(Session, i, targetType)
    IN  /\ Becomes(result.s)
        /\ clock' = IF result.ok THEN Departs(i) ELSE clock
        /\ UNCHANGED <<totalSolsPassed, currentSol, currentSolProgress, tickCounter, saved,
                     hist>>

\* the player sends a rocket to explore: GameManager.startExploration
OrderExploration(i, targetType) ==
    LET result == startExploration(Session, i, targetType)
    IN  /\ Becomes(result.s)
        /\ clock' = IF result.ok THEN Departs(i) ELSE clock
        /\ UNCHANGED <<totalSolsPassed, currentSol, currentSolProgress, tickCounter, saved,
                     hist>>

InitClock == InitFrom({ExplorerSession, TraderSession(Qty(34))})

NextClock ==
    \/ \E elapsed \in Elapsed : ClockTick(elapsed)
    \/ \E i \in 1..Len(rockets), t \in LocationType : OrderTravel(i, t)
    \/ \E i \in 1..Len(rockets), t \in LocationType : OrderExploration(i, t)

SpecClock == InitClock /\ [][NextClock]_vars

\* rocket i is on a flight the player ordered
OnOrderedFlight(i) ==
    /\ i \in DOMAIN clock.departedAt
    /\ clock.departedAt[i] # 0
    /\ rockets[i].destinationId # NoLocation

\* C27: a rocket never arrives early: the rocket update that completes a flight ordered
\* at time t0 with the duration initialTravelTime happens at a time t1 with
\* t1 - t0 >= initialTravelTime, whatever the spacing of the ticks
C27_NeverArrivesEarly ==
    [][\A i \in 1..Len(rockets) :
          (OnOrderedFlight(i) /\ rockets'[i].destinationId = NoLocation)
          => clock'.now - clock.departedAt[i] >= rockets[i].initialTravelTime]_vars

\* C27, second part: the tick driver has subtracted from a rocket on its way only time
\* that has elapsed since the flight began
C27_OnlyTimeInFlight ==
    \A i \in 1..Len(rockets) :
        OnOrderedFlight(i)
        => rockets[i].initialTravelTime - rockets[i].estimatedTravelTime
               <= clock.now - clock.departedAt[i]

-----------------------------------------------------------------------------
(* The course of a rocket on a trade route *)

\* rocket i flies to the location of colony c
FliesTo(i, c) ==
    /\ c # 0
    /\ rockets[i].destinationId # NoLocation
    /\ rockets[i].destinationId.uuid = colonies[c].locationId.uuid

\* C28: a rocket with sellRoute = true whose sellRouteState is TRAVELING_TO_EARTH flies
\* to the location of the Earth colony, one whose state is TRAVELING_TO_ORIGIN flies to
\* the location of the colony named by sellRouteOriginId, neither is docked between
\* two ticks, and no sellRouteState is LOADING or SELLING
C28_RouteRocketsOnCourse ==
    \A i \in 1..Len(rockets) :
        /\ rockets[i].sellRouteState \notin {LOADING, SELLING}
        /\ (rockets[i].sellRoute /\ rockets[i].sellRouteState = TRAVELING_TO_EARTH)
              => FliesTo(i, FindColonyByType(Session, EARTH))
        /\ (rockets[i].sellRoute /\ rockets[i].sellRouteState = TRAVELING_TO_ORIGIN)
              => FliesTo(i, getColonyById(Session, rockets[i].sellRouteOriginId))

-----------------------------------------------------------------------------
(* The sol calendar *)

\* the latest time the clock of a session without rockets shows, in quarter minutes
MaxSolClock == 12

\* the time between two ticks of that session: the game loop may have been suspended
\* for more than two sols
Pauses == Elapsed \cup {5}

SolTick(elapsed) == TickWithin(elapsed, MaxSolClock)

InitCalendar == InitFrom({NewSession})

NextCalendar == \E elapsed \in Pauses : SolTick(elapsed)

SpecCalendar == InitCalendar /\ [][NextCalendar]_vars

\* the sol progress is between 0 and 1 and the current sol is one more than the sols passed
SolCountersInStep ==
    /\ 0 <= currentSolProgress
    /\ currentSolProgress <= SolQuarters
    /\ currentSol = totalSolsPassed + 1

\* a step raises currentSol by at most 1, and a step that raises it resets the progress
\* and runs endOfSolUpdate once on every colony
SolPassesOnce ==
    /\ currentSol' <= currentSol + 1
    /\ currentSol' > currentSol
          => /\ currentSolProgress' = 0
             /\ colonies' = [c \in 1..Len(colonies) |-> endOfSolUpdate(colonies[c])]

\* C29: in a session started by createNewSession and driven by tick() only,
\* 0 <= currentSolProgress <= 1 and currentSol = totalSolsPassed + 1 in every state, a
\* tick raises currentSol by at most 1, and every increase of currentSol resets
\* currentSolProgress to 0 and runs endOfSolUpdate exactly once on every colony
C29_SolCalendar == [](SolCountersInStep) /\ [][SolPassesOnce]_vars

\* the third sol is half over, the Earth HQ holds what two sol ends have produced
C29_Witness ==
    /\ totalSolsPassed = 2
    /\ currentSolProgress = 2
    /\ colonies = EndOfSolAll(EndOfSolAll(NewSession.colonies, 1), 1)
    /\ colonies # EndOfSolAll(NewSession.colonies, 1)

-----------------------------------------------------------------------------
(* Two explorations of one target *)

\* the Earth HQ (level 18) holds the fuel and the treasury the price of two first
\* explorations of the space station, two rockets are docked at the Earth HQ
TwinExplorerSession ==
    [credits |-> Credits(2 * EXPLORATION_BASE_PRICE),
     colonies |-> <<EarthHQ(18, <<ProductionModule(FOOD, 3)>>,
                            <<ItemPosition(FUEL, Qty(2000))>>)>>,
     rockets |-> <<DockedRocket(1, EarthHQLocation), DockedRocket(2, EarthHQLocation)>>,
     missions |-> <<>>]

InitExplore == InitFrom({ExplorerSession, TwinExplorerSession})

NextExplore ==
    \/ \E i \in 1..Len(rockets), t \in LocationType : StartExploration(i, t)
    \/ \E d \in Deltas, q \in SinceSol : GameTick(d, q)

SpecExplore == InitExplore /\ [][NextExplore]_vars

\* C30: no two colonies have the same location type, also when two rockets run
\* exploration missions to the same target type at the same time: the first arrival
\* founds the colony, the later arrival founds none
C30_OneColonyPerType ==
    \A a, b \in 1..Len(colonies) :
        a # b => colonies[a].locationId.type # colonies[b].locationId.type

\* both rockets have ended a mission to the space station and are docked there, the
\* colony of the first arrival is the only one at the station
C30_Witness ==
    /\ Len(rockets) = 2
    /\ explorationMissions = <<>>
    /\ \A i \in 1..2 :
          /\ rockets[i].destinationId = NoLocation
          /\ rockets[i].locationId.type = SPACE_STATION
    /\ Len(colonies) = 2
    /\ colonies[2].locationId.type = SPACE_STATION

=============================================================================
